---- MODULE Spec2Model ----
(***************************************************************************)
(* Model of the stream-join pipeline:                                      *)
(*   - the calculation service (market consumer, ordered offset commit,    *)
(*     idempotent atomic write of market + PnL), specification Spec;       *)
(*   - the trade memory buffer (add / query / sweep), specification        *)
(*     SpecBuf.                                                            *)
(* Every step is one turn of the single-threaded event loop: a handler or  *)
(* the continuation of one awaited I/O call, run to its next await.        *)
(***************************************************************************)
EXTENDS Integers, Sequences, FiniteSets, TLC

\* ------------------------------------------------------------- bounds
\* Messages per partition; offsets are 0 .. MaxOffset-1.
MaxOffset == 3
\* Messages the bus hands to eachMessage in one run, redeliveries included.
MaxDeliveries == 4

\* Trades added to the memory buffer in one run.
MaxTrades == 3
\* The clock and the trade times range over 0 .. MaxTime.
MaxTime == 4
\* Offsets per partition of the trades topic / trades held by the pipeline
\* (pending or being flushed)
MaxTradeOffset == 1
MaxPending == 2
\* Bulk upsert on its own: trades of a batch, offsets of their keys, and
\* flushes of the same batch
MaxBatch == 2
MaxBatchOffset == 2
MaxFlushCount == 2
\* Shutdown: trades consumed and not yet written
MaxUnflushed == 4
\* calculatePnL: prices (hundredths), volumes, length of the trade list
MaxPrice == 3
MaxVolume == 2
MaxPnlTrades == 2
\* getPnls: documents in the pnls collection, latest marketEndTime
MaxPnlDocs == 2
MaxEndTime == 12
\* retryWithBackoff: results the trade fetch may resolve with
MaxFetchResult == 2
\* Trade messages consumed while the queried range is followed.
MaxRangeTrades == 1

\* ---------------------------------------------------------- constants
\* Size of the FIFO of recently written intervals (env MARKET_BUFFER_SIZE).
MARKET_BUFFER_SIZE == 1
\* Retention of the trade memory buffer (env MEMORY_RETENTION_MS), in
\* units of the model's clock.
MEMORY_RETENTION_MS == 1
\* Retention of the merged queried range (env QUERIED_RANGE_RETENTION_MS),
\* in units of the model's clock.
QUERIED_RANGE_RETENTION_MS == 2
\* The router's wait for a later trade (WAIT_TIMEOUT_MS) and the polling
\* interval of that wait (intervalMs), in units of the model's clock.
WAIT_TIMEOUT_MS == 3
intervalMs == 2
\* The trading fee per MWh, 0.13, in hundredths of a euro.
TRADING_FEE_PER_MWH == 13
\* One minute (60 * 1000 ms) in the half minutes getPnls's instants are
\* counted in.
MINUTE == 2
\* retryWithBackoff: attempts and first delay in ms (grpc-client)
MAX_RETRIES == 5
INITIAL_RETRY_DELAY_MS == 100

\* "No offset": absent from a map, or no next offset to commit.
Nil == 0 - 1

\* The partitions of the market topic assigned to this consumer.
Partitions == { 0 }
Offsets == 0 .. (MaxOffset - 1)
\* (startTime, endTime) of the market intervals that occur on the topic.
Intervals == { <<1, 2>>, <<1, 3>> }
\* The position the consumer group starts from on every partition.
StartOffset == CHOOSE o \in Offsets : \A j \in Offsets : o <= j
\* What a message of the topic may hold: a market interval, or something
\* that fails JSON.parse or isParsedRawMarketMessage.
MarketMessage(iv) == [messageType |-> "market", startTime |-> iv[1], endTime |-> iv[2]]
InvalidMessage == [messageType |-> "other", startTime |-> 0, endTime |-> 0]
Messages == { MarketMessage(iv) : iv \in Intervals } \cup { InvalidMessage }
\* The contents of the topic. The two intervals are interchangeable, so
\* the first market message of a partition carries the first one.
FirstInterval == CHOOSE iv \in Intervals : \A other \in Intervals : iv[2] <= other[2]
Topics ==
  { t \in [Partitions -> [Offsets -> Messages]] :
      \A p \in Partitions : \A o \in Offsets :
        (/\ t[p][o].messageType = "market"
         /\ \A j \in 0 .. (o - 1) : t[p][j].messageType # "market")
        => t[p][o] = MarketMessage(FirstInterval) }

VARIABLES
  \* ---- the bus (environment)
  topic,              \* partition -> offset -> interval of the message, or Invalid
  cursor,             \* partition -> next offset the bus delivers
  busCommitted,       \* partition -> committed position of the group
  commitQueue,        \* commit requests awaiting their response, in send order
  deliveries,         \* messages handed to eachMessage so far
  \* ---- calculation service, index.ts
  inFlightOffsets,    \* partition -> set of offsets (only tracked partitions)
  completedOffsets,   \* partition -> set of offsets (only tracked partitions)
  lastCommittedOffset,\* partition -> offset (only partitions with a commit)
  pc,                 \* partition -> offset -> where the processing task is
  \* ---- calculation service, market-buffer.ts and the store
  marketBuffer,       \* sequence of market documents, oldest first
  markets,            \* collection markets
  pnls,               \* collection pnls
  \* ---- history (not read by the program)
  startedStored,      \* partition -> offset -> running task found its interval
                      \*   in the store when it started
  lastEnded           \* the task that ended last: its partition and offset
                      \*   and how it ended: "buffer", "found" (idempotency
                      \*   check), "committed", "dupkey", "txnError" (the
                      \*   store's answer to the write), "thrown" (lookup
                      \*   or fetch failed)

calcVars == << topic, cursor, busCommitted, commitQueue, deliveries,
               inFlightOffsets, completedOffsets, lastCommittedOffset, pc,
               marketBuffer, markets, pnls,
               startedStored, lastEnded >>

VARIABLES
  \* ---- trade memory service, memory-buffer.ts
  tradeBuffer,        \* sequence of trade documents, in insertion order
  lastTradeTime,      \* time of the latest trade seen, or Nil
  now,                \* the wall clock
  \* ---- history (not read by the program)
  addedTrades,        \* every trade ever added
  sweptTrades         \* every trade a sweep removed

bufVars == << tradeBuffer, lastTradeTime, now, addedTrades, sweptTrades >>

VARIABLES
  \* ---- trade memory service, range-query.ts: one getTradesForPeriod call
  query               \* phase "idle", "waiting" (in
                      \*   waitForTradeAfterEndTimeOrTimeout), "rpc" (awaiting
                      \*   the persistence service) or "answered"; the
                      \*   request (start, end), t0 = lastTradeTime at its
                      \*   start, startedAt, wake (when the pending timer or
                      \*   the RPC deadline fires); and, once answered, how
                      \*   (via), when (answeredAt) and what the callback got

routerVars == << query >>

VARIABLES
  \* ---- the trades topic as the persistence service's group sees it
  tradesTopic,        \* [partition -> [offset -> is the message a valid trade]]
  tradesCursor,       \* [partition -> next offset the bus delivers]
  tradesCommitted,    \* [partition -> committed position of the group]
  \* ---- trade persistence service, batch-writer.ts
  pendingTrades,            \* sequence of [partition, offset]
  highestOffsetByPartition, \* partial map partition -> offset
  flushes,            \* [flush -> [pc, tradesToFlush, offsetsToCommit]]: the
                      \*   flushBatchToDB calls, pc "idle", "bulkWrite"
                      \*   (awaiting the bulk write) or "commit" (awaiting
                      \*   commitOffsets)
  storedTrades,       \* keys (partition, offset) of the documents in the
                      \*   trades collection
  \* ---- history (not read by the program)
  seenSinceCommit,    \* partial map partition -> highest offset of a valid
                      \*   trade consumed since the last successful commit
  lastFlushResult     \* how the flush that ended last ended

batchVars == << tradesTopic, tradesCursor, tradesCommitted, pendingTrades,
                highestOffsetByPartition, flushes, storedTrades,
                seenSinceCommit, lastFlushResult >>

VARIABLES
  \* ---- the bulk upsert of one batch on the trades collection
  tradesCollection,   \* the documents of the collection, in insertion order
  upsertBatch,      \* the batch: sequence of [partition, offset, createdAt]
  flushCount,         \* bulk writes of the batch so far
  \* ---- history (not read by the program)
  afterFirstFlush,    \* the collection after the first bulk write
  rebuilt             \* the batch was built again from redelivered messages

upsertVars == << tradesCollection, upsertBatch, flushCount, afterFirstFlush,
                 rebuilt >>

VARIABLES
  \* ---- trade persistence service, index.ts: the shutdown of the process
  shutdownPc,         \* position of shutdown(): "running" (no signal yet),
                      \*   "flushing" (awaiting flushBatchToDB),
                      \*   "disconnecting" (awaiting consumer.disconnect),
                      \*   "closing" (awaiting closeDatabase), "exited"
  batchWriteTimer,    \* the batch timer is set
  pendingCount,       \* pendingTrades.length
  finalFlush,         \* size of the snapshot of the flush shutdown() awaits,
                      \*   Nil when it is not in progress
  timerFlush,         \* the same for the flush the batch timer started
  consumerConnected,
  dbConnected,
  \* ---- history (not read by the program)
  timerAtFinalFlush,  \* batchWriteTimer when shutdown() called the flush
  timerFlushInShutdown \* a timer-driven flush started after that call

shutdownVars == << shutdownPc, batchWriteTimer, pendingCount, finalFlush,
                   timerFlush, consumerConnected, dbConnected,
                   timerAtFinalFlush, timerFlushInShutdown >>

\* ---- calculation service: calculatePnL (pnl-calculation.ts)
VARIABLES
  pnlBuyPrice,    \* the buyPrice argument, in hundredths of a euro per MWh
  pnlSellPrice,   \* the sellPrice argument, in hundredths
  pnlTrades,      \* the trades argument: records [tradeType, volume]
  pnlPc,          \* "called" until calculatePnL has returned
  pnlResult       \* the record calculatePnL returned

pnlVars == << pnlBuyPrice, pnlSellPrice, pnlTrades, pnlPc, pnlResult >>

\* ---- frontend service: getPnls over the pnls collection
VARIABLES
  pnlsCollection,  \* the pnls collection: a set of PnL documents
  getPc,       \* "idle" until getPnls has returned, then "returned"
  getResult    \* the list getPnls returned

aggVars == << pnlsCollection, getPc, getResult >>

\* ---- calculation service: one retryWithBackoff call (grpc-client)
VARIABLES
  retry        \* pc "idle", "calling" (awaiting fn), "waiting" (in the
               \*   delay), "returned" or "thrown"; attempt, lastError,
               \*   result, taskFailed (processMarketMessage rejected);
               \*   history: calls (number of fn calls), errors (every
               \*   error fn raised), delays (every delay waited)

retryVars == << retry >>

\* ---- trade memory service: the merged queried range (memory-buffer)
VARIABLES
  queriedRange \* queriedRangeStart and queriedRangeEnd (Nil: null);
               \*   history: ends (the end of every range queried so far),
               \*   warned (the trades the late-arrival warning was logged
               \*   for)

rangeVars == << queriedRange >>

\* Everything but the variables of one component
notCalcVars == << bufVars, routerVars, batchVars, upsertVars, shutdownVars, pnlVars, aggVars, retryVars, rangeVars >>
notBufVars == << calcVars, routerVars, batchVars, upsertVars, shutdownVars, pnlVars, aggVars, retryVars, rangeVars >>
notBatchVars == << calcVars, bufVars, routerVars, upsertVars, shutdownVars, pnlVars, aggVars, retryVars, rangeVars >>
notRouterVars == << calcVars, bufVars, batchVars, upsertVars, shutdownVars, pnlVars, aggVars, retryVars, rangeVars >>
notUpsertVars == << calcVars, bufVars, routerVars, batchVars, shutdownVars, pnlVars, aggVars, retryVars, rangeVars >>
notShutdownVars == << calcVars, bufVars, routerVars, batchVars, upsertVars, pnlVars, aggVars, retryVars, rangeVars >>
notPnlVars == << calcVars, bufVars, routerVars, batchVars, upsertVars, shutdownVars, aggVars, retryVars, rangeVars >>
notAggVars == << calcVars, bufVars, routerVars, batchVars, upsertVars, shutdownVars, pnlVars, retryVars, rangeVars >>
notRetryVars == << calcVars, bufVars, routerVars, batchVars, upsertVars, shutdownVars, pnlVars, aggVars, rangeVars >>
notRangeVars == << calcVars, bufVars, routerVars, batchVars, upsertVars, shutdownVars, pnlVars, aggVars, retryVars >>

notBufRangeVars == << calcVars, routerVars, batchVars, upsertVars, shutdownVars, pnlVars, aggVars, retryVars >>

notRouterRangeVars == << calcVars, bufVars, batchVars, upsertVars, shutdownVars, pnlVars, aggVars, retryVars >>

vars == << calcVars, bufVars, routerVars, batchVars, upsertVars, shutdownVars, pnlVars, aggVars, retryVars, rangeVars >>

\* ------------------------------------------------------------ helpers
Has(map, p) == p \in DOMAIN map
Get(map, p) == IF Has(map, p) THEN map[p] ELSE {}
Put(map, p, v) == [q \in (DOMAIN map) \cup {p} |-> IF q = p THEN v ELSE map[q]]
Min(S) == CHOOSE x \in S : \A y \in S : x <= y

\* The interval of `msg` is durably processed: its market and its PnL
\* document are in the store. (Used by the properties and the history
\* variables only.)
Stored(msg) ==
  /\ \E m \in markets : m.startTime = msg.startTime /\ m.endTime = msg.endTime
  /\ \E d \in pnls : d.marketStartTime = msg.startTime
                     /\ d.marketEndTime = msg.endTime

\* types.ts isParsedRawMarketMessage, and the null-value / JSON.parse guards
isParsedRawMarketMessage(m) == m.messageType = "market"

\* index.ts initPartitionTracking
initPartitionTracking(map, p) == IF Has(map, p) THEN map ELSE Put(map, p, {})

\* market-buffer.ts isMarketProcessed: the scan of the in-memory buffer
InMarketBuffer(msg) ==
  \E i \in 1 .. Len(marketBuffer) :
    /\ marketBuffer[i].startTime = msg.startTime
    /\ marketBuffer[i].endTime = msg.endTime

\* Mutant of FindOneMarket: the query mixes up the two fields.
FindOneMarket_FieldMixup(msg) ==
  \E m \in markets : m.startTime = msg.endTime /\ m.endTime = msg.startTime

\* market-buffer.ts isMarketProcessed: markets.findOne({startTime, endTime})
FindOneMarket(msg) ==
  \E m \in markets : m.startTime = msg.startTime /\ m.endTime = msg.endTime

\* market-buffer.ts marketDoc
MarketDoc(p, o) ==
  [partition |-> p, offset |-> o,
   startTime |-> topic[p][o].startTime, endTime |-> topic[p][o].endTime]

\* market-buffer.ts pnlDoc; id stands for the document's own identity
PnLDoc(p, o) ==
  [marketStartTime |-> topic[p][o].startTime,
   marketEndTime |-> topic[p][o].endTime,
   id |-> <<p, o>>]

\* Mutant of addMarketToBuffer: nothing is evicted.
addMarketToBuffer_NoEviction(buf, doc) == Append(buf, doc)

\* market-buffer.ts addMarketToBuffer
addMarketToBuffer(buf, doc) ==
  LET b == Append(buf, doc)
  IN  IF Len(b) > MARKET_BUFFER_SIZE THEN Tail(b) ELSE b

\* db.ts unique indexes: markets (partition, offset), pnls (start, end)
DuplicateKey(mdoc, pdoc) ==
  \/ \E m \in markets : m.partition = mdoc.partition /\ m.offset = mdoc.offset
  \/ \E d \in pnls : d.marketStartTime = pdoc.marketStartTime
                     /\ d.marketEndTime = pdoc.marketEndTime

\* ------------------------------------------- index.ts, ordered commit
\* commitOffsetsInOrder, lines 81-101: the offset the invocation commits
\* first, or Nil when it returns without committing.
FirstToCommit(p, cmpl, last) ==
  IF ~Has(cmpl, p) \/ Get(cmpl, p) = {} THEN Nil
  ELSE IF ~Has(last, p) THEN Min(cmpl[p])
  ELSE IF (last[p] + 1) \in cmpl[p] THEN last[p] + 1
  ELSE Nil

\* commitOffsetsInOrder, lines 122-128: the offset committed after `o`.
NextToCommit(p, cmpl, o) ==
  IF (o + 1) \in Get(cmpl, p) THEN o + 1 ELSE Nil

\* One consumer.commitOffsets call awaiting its response. `last` records
\* lastCommittedOffset of the partition when the request was sent.
CommitRequest(p, k, last) ==
  [partition |-> p, offset |-> k, last |-> IF Has(last, p) THEN last[p] ELSE Nil]

\* commitOffsetsInOrder(partition) up to its first await: the requests it
\* adds to the bus connection (none, or one).
commitOffsetsInOrder(p, cmpl, last) ==
  LET k == FirstToCommit(p, cmpl, last)
  IN  IF k = Nil THEN << >> ELSE << CommitRequest(p, k, last) >>

\* eachMessage, .then callback (lines 174-178): the tracking sets afterwards
ThenInFlight(p, o) == [inFlightOffsets EXCEPT ![p] = @ \ {o}]
ThenCompleted(p, o) == [completedOffsets EXCEPT ![p] = @ \cup {o}]
\* eachMessage, .catch callback (lines 189-195)
CatchInFlight(p, o) == [inFlightOffsets EXCEPT ![p] = @ \ {o}]
\* Mutant of CatchCompleted: the failed offset is marked completed as well.
CatchCompleted_AddsOffset(p, o) == [completedOffsets EXCEPT ![p] = @ \cup {o}]
CatchCompleted(p, o) == completedOffsets

\* processMarketMessage of (p, o) resolved (with true or false): the .then
\* callback, which also starts commitOffsetsInOrder (not awaited). `how`
\* records why the task returned.
TaskReturns(p, o, how) ==
  /\ inFlightOffsets' = ThenInFlight(p, o)
  /\ completedOffsets' = ThenCompleted(p, o)
  /\ commitQueue' = commitQueue
        \o commitOffsetsInOrder(p, completedOffsets', lastCommittedOffset)
  /\ lastEnded' = [partition |-> p, offset |-> o, how |-> how]
  /\ startedStored' = [startedStored EXCEPT ![p][o] = FALSE]
  /\ pc' = [pc EXCEPT ![p][o] = "idle"]
  /\ UNCHANGED << lastCommittedOffset, busCommitted >>

\* processMarketMessage of (p, o) rejected: the .catch callback.
TaskThrows(p, o, how) ==
  /\ inFlightOffsets' = CatchInFlight(p, o)
  /\ completedOffsets' = CatchCompleted(p, o)
  /\ lastEnded' = [partition |-> p, offset |-> o, how |-> how]
  /\ startedStored' = [startedStored EXCEPT ![p][o] = FALSE]
  /\ pc' = [pc EXCEPT ![p][o] = "idle"]
  /\ UNCHANGED << commitQueue, lastCommittedOffset, busCommitted >>

\* --------------------------------------------------------------- Init
\* index.ts 69-71 and market-buffer.ts 12: nothing tracked, nothing buffered
CalcStart ==
  /\ cursor = [p \in Partitions |-> StartOffset]
  /\ busCommitted = [p \in Partitions |-> StartOffset]
  /\ commitQueue = << >>
  /\ deliveries = 0
  /\ inFlightOffsets = << >>
  /\ completedOffsets = << >>
  /\ lastCommittedOffset = << >>
  /\ pc = [p \in Partitions |-> [o \in Offsets |-> "idle"]]
  /\ marketBuffer = << >>
  /\ markets = {}
  /\ pnls = {}
  /\ startedStored = [p \in Partitions |-> [o \in Offsets |-> FALSE]]
  /\ lastEnded = [partition |-> Nil, offset |-> Nil, how |-> "none"]

CalcInit == topic \in Topics /\ CalcStart

\* The calculation service at rest on a topic without market messages (the
\* state of its variables throughout SpecBuf).
CalcIdle ==
  /\ topic = [p \in Partitions |-> [o \in Offsets |-> InvalidMessage]]
  /\ CalcStart

\* memory-buffer.ts, lines 7-10: the module's initial state
BufInit ==
  /\ tradeBuffer = << >>
  /\ lastTradeTime = Nil
  /\ now = 0
  /\ addedTrades = {}
  /\ sweptTrades = {}

\* range-query.ts: no request is being served
NoQuery ==
  [phase |-> "idle", start |-> Nil, end |-> Nil, t0 |-> Nil,
   startedAt |-> Nil, wake |-> Nil, via |-> "none", answeredAt |-> Nil,
   error |-> FALSE, trades |-> << >>]

RouterInit == query = NoQuery

TradePartitions == { 0, 1 }
TradeOffsets == 0 .. (MaxTradeOffset - 1)
\* A flush ends before the batch timer fires again (BATCH_INTERVAL_MS, 10 s)
FlushIds == { 1 }

\* batch-writer.ts: no flushBatchToDB call in progress
IdleFlush ==
  [pc |-> "idle", tradesToFlush |-> << >>, offsetsToCommit |-> << >>]

\* batch-writer.ts, lines 8-10: the module's initial state, and a group
\* that has committed nothing
BatchStart ==
  /\ tradesCursor = [p \in TradePartitions |-> 0]
  /\ tradesCommitted = [p \in TradePartitions |-> 0]
  /\ pendingTrades = << >>
  /\ highestOffsetByPartition = << >>
  /\ flushes = [f \in FlushIds |-> IdleFlush]
  /\ storedTrades = {}
  /\ seenSinceCommit = << >>
  /\ lastFlushResult = "none"

\* The trades topics: every message a valid trade, or the first message
\* of partition 1 an invalid one.
TradesTopics ==
  { [p \in TradePartitions |-> [o \in TradeOffsets |-> TRUE]],
    [p \in TradePartitions |-> [o \in TradeOffsets |-> ~(p = 1 /\ o = 0)]] }

BatchInit ==
  /\ tradesTopic \in TradesTopics
  /\ BatchStart

\* The persistence service at rest (the state of its variables in the
\* specifications of the other services).
BatchIdle ==
  /\ tradesTopic = [p \in TradePartitions |-> [o \in TradeOffsets |-> TRUE]]
  /\ BatchStart

\* No batch is being upserted (the state of the variables of the bulk
\* upsert in the specifications of the services).
UpsertIdle ==
  /\ tradesCollection = << >>
  /\ upsertBatch = << >>
  /\ flushCount = 0
  /\ afterFirstFlush = << >>
  /\ rebuilt = FALSE

\* index.ts 71-80: the service runs: connected, the batch timer started
ShutdownInit ==
  /\ shutdownPc = "running"
  /\ batchWriteTimer = TRUE
  /\ pendingCount = 0
  /\ finalFlush = Nil
  /\ timerFlush = Nil
  /\ consumerConnected = TRUE
  /\ dbConnected = TRUE
  /\ timerAtFinalFlush = FALSE
  /\ timerFlushInShutdown = FALSE

PnlIdle ==
  /\ pnlBuyPrice = 0
  /\ pnlSellPrice = 0
  /\ pnlTrades = << >>
  /\ pnlPc = "called"
  /\ pnlResult = << >>

AggIdle ==
  /\ pnlsCollection = {}
  /\ getPc = "idle"
  /\ getResult = << >>

NoRetry ==
  [pc |-> "idle", attempt |-> 0, lastError |-> Nil, result |-> Nil,
   taskFailed |-> FALSE, calls |-> 0, errors |-> << >>, delays |-> << >>]

RetryIdle == retry = NoRetry

NoQueriedRange ==
  [queriedRangeStart |-> Nil, queriedRangeEnd |-> Nil,
   ends |-> {}, warned |-> {}]

RangeInit == queriedRange = NoQueriedRange

Init == CalcInit /\ BufInit /\ RouterInit /\ BatchIdle /\ UpsertIdle /\ ShutdownInit /\ PnlIdle /\ AggIdle /\ RetryIdle /\ RangeInit

\* ----------------------------------------------------------- actions
\* eachMessage (index.ts 139-202) for the next message of partition p, and
\* processMarketMessage up to its first await (the buffer scan of
\* isMarketProcessed runs synchronously inside the call).
Deliver(p) ==
  /\ UNCHANGED notCalcVars
  /\ cursor[p] < MaxOffset
  /\ deliveries < MaxDeliveries
  /\ deliveries' = deliveries + 1
  /\ LET o == cursor[p]
         m == topic[p][o]
     IN
     /\ cursor' = [cursor EXCEPT ![p] = o + 1]
     /\ IF ~isParsedRawMarketMessage(m)
        THEN UNCHANGED << inFlightOffsets, completedOffsets, pc, startedStored >>
        ELSE
          /\ completedOffsets' = initPartitionTracking(completedOffsets, p)
          /\ IF o \in Get(inFlightOffsets, p)
             THEN /\ inFlightOffsets' = initPartitionTracking(inFlightOffsets, p)
                  /\ UNCHANGED << pc, startedStored >>
             ELSE /\ inFlightOffsets' =
                       Put(inFlightOffsets, p, Get(inFlightOffsets, p) \cup {o})
                  /\ pc' = [pc EXCEPT ![p][o] =
                              IF InMarketBuffer(m) THEN "hit" ELSE "find"]
                  /\ startedStored' =
                       [startedStored EXCEPT ![p][o] = Stored(m)]
  /\ UNCHANGED << topic, busCommitted, commitQueue, lastCommittedOffset,
                  marketBuffer, markets, pnls, lastEnded >>

\* isMarketProcessed returned true from the buffer: processMarketMessage
\* returns true (market-buffer.ts 63-67).
BufferHitReturns(p, o) ==
  /\ UNCHANGED notCalcVars
  /\ pc[p][o] = "hit"
  /\ TaskReturns(p, o, "buffer")
  /\ UNCHANGED << topic, cursor, deliveries, marketBuffer, markets, pnls >>

\* markets.findOne answered (market-buffer.ts 27-33, 63-67)
FindOneReturns(p, o) ==
  /\ UNCHANGED notCalcVars
  /\ pc[p][o] = "find"
  /\ IF FindOneMarket(topic[p][o])
     THEN TaskReturns(p, o, "found")
     ELSE /\ pc' = [pc EXCEPT ![p][o] = "fetch"]
          /\ UNCHANGED << inFlightOffsets, completedOffsets, commitQueue,
                          lastEnded, lastCommittedOffset,
                          busCommitted, startedStored >>
  /\ UNCHANGED << topic, cursor, deliveries, marketBuffer, markets, pnls >>

\* markets.findOne failed: processMarketMessage rejects
FindOneFails(p, o) ==
  /\ UNCHANGED notCalcVars
  /\ pc[p][o] = "find"
  /\ TaskThrows(p, o, "thrown")
  /\ UNCHANGED << topic, cursor, deliveries, marketBuffer, markets, pnls >>

\* retryWithBackoff(getTradesForPeriod) returned the trades (83-103)
FetchReturns(p, o) ==
  /\ UNCHANGED notCalcVars
  /\ pc[p][o] = "fetch"
  /\ pc' = [pc EXCEPT ![p][o] = "write"]
  /\ UNCHANGED << topic, cursor, busCommitted, commitQueue, deliveries,
                  inFlightOffsets, completedOffsets, lastCommittedOffset,
                  marketBuffer, markets, pnls,
                  startedStored, lastEnded >>

\* retryWithBackoff exhausted its attempts and threw (119-122)
FetchFails(p, o) ==
  /\ UNCHANGED notCalcVars
  /\ pc[p][o] = "fetch"
  /\ TaskThrows(p, o, "thrown")
  /\ UNCHANGED << topic, cursor, deliveries, marketBuffer, markets, pnls >>

\* market-pnl-transaction.ts writeMarketAndPnL, lines 19-27: what the store
\* holds after a transaction that commits (both inserts, or neither).
TxnMarkets(mdoc, pdoc) == markets \cup {mdoc}
TxnPnls(mdoc, pdoc) == pnls \cup {pdoc}
\* Mutant of AbortMarkets: the market insert is not rolled back.
AbortMarkets_NoRollback(mdoc, pdoc) == markets \cup {mdoc}
\* ... and after a transaction that aborts (session.withTransaction rolls
\* back whatever either insert did).
AbortMarkets(mdoc, pdoc) == markets
AbortPnls(mdoc, pdoc) == pnls

\* Mutant of WriteResult: the duplicate-key error is re-raised too.
WriteResult_RethrowsDuplicate(answer) ==
  CASE answer = "committed" -> "written"
    [] OTHER                -> "throw"

\* Mutant of WriteResult: every transaction error counts as "already
\* processed".
WriteResult_SwallowsError(answer) ==
  CASE answer = "committed" -> "written"
    [] OTHER                -> "skipped"

\* writeMarketAndPnL, lines 29-37: what the call does with the store's
\* answer: resolve false ("written"), resolve true ("skipped"), or re-raise.
WriteResult(answer) ==
  CASE answer = "committed" -> "written"
    [] answer = "dupkey"    -> "skipped"
    [] OTHER                -> "throw"

\* processMarketMessage after writeMarketAndPnL settled (105-122)
AfterWrite(p, o, answer) ==
  CASE WriteResult(answer) = "written" ->
         /\ marketBuffer' = addMarketToBuffer(marketBuffer, MarketDoc(p, o))
         /\ TaskReturns(p, o, answer)
    [] WriteResult(answer) = "skipped" ->
         /\ UNCHANGED marketBuffer
         /\ TaskReturns(p, o, answer)
    [] OTHER ->
         /\ UNCHANGED marketBuffer
         /\ TaskThrows(p, o, answer)

\* The transaction of writeMarketAndPnL committed: both documents are in
\* the store.
WriteCommits(p, o) ==
  /\ UNCHANGED notCalcVars
  /\ pc[p][o] = "write"
  /\ ~DuplicateKey(MarketDoc(p, o), PnLDoc(p, o))
  /\ markets' = TxnMarkets(MarketDoc(p, o), PnLDoc(p, o))
  /\ pnls' = TxnPnls(MarketDoc(p, o), PnLDoc(p, o))
  /\ AfterWrite(p, o, "committed")
  /\ UNCHANGED << topic, cursor, deliveries >>

\* The transaction aborted on a duplicate key (code 11000): nothing is
\* written.
WriteDuplicate(p, o) ==
  /\ UNCHANGED notCalcVars
  /\ pc[p][o] = "write"
  /\ DuplicateKey(MarketDoc(p, o), PnLDoc(p, o))
  /\ markets' = AbortMarkets(MarketDoc(p, o), PnLDoc(p, o))
  /\ pnls' = AbortPnls(MarketDoc(p, o), PnLDoc(p, o))
  /\ AfterWrite(p, o, "dupkey")
  /\ UNCHANGED << topic, cursor, deliveries >>

\* The transaction aborted on any other error: nothing is written.
WriteFails(p, o) ==
  /\ UNCHANGED notCalcVars
  /\ pc[p][o] = "write"
  /\ markets' = AbortMarkets(MarketDoc(p, o), PnLDoc(p, o))
  /\ pnls' = AbortPnls(MarketDoc(p, o), PnLDoc(p, o))
  /\ AfterWrite(p, o, "txnError")
  /\ UNCHANGED << topic, cursor, deliveries >>

\* The bus answered the oldest commit request with success: the rest of the
\* loop body of commitOffsetsInOrder (index.ts 117-128) up to the next await.
CommitAck ==
  /\ UNCHANGED notCalcVars
  /\ commitQueue # << >>
  /\ LET req == Head(commitQueue)
         p == req.partition
         o == req.offset
     IN
     /\ busCommitted' = [busCommitted EXCEPT ![p] = o + 1]
     /\ completedOffsets' = [completedOffsets EXCEPT ![p] = @ \ {o}]
     /\ lastCommittedOffset' = Put(lastCommittedOffset, p, o)
     /\ LET n == NextToCommit(p, completedOffsets', o)
        IN  commitQueue' =
              IF n = Nil THEN Tail(commitQueue)
              ELSE Append(Tail(commitQueue),
                          CommitRequest(p, n, lastCommittedOffset'))
  /\ UNCHANGED << topic, cursor, deliveries, inFlightOffsets, pc,
                  marketBuffer, markets, pnls, startedStored, lastEnded >>

\* The bus answered the oldest commit request with an error: the catch of
\* the loop (index.ts 129-132) ends the invocation.
CommitFail ==
  /\ UNCHANGED notCalcVars
  /\ commitQueue # << >>
  /\ commitQueue' = Tail(commitQueue)
  /\ UNCHANGED << topic, cursor, busCommitted, deliveries, inFlightOffsets,
                  completedOffsets, lastCommittedOffset, pc, marketBuffer,
                  markets, pnls, startedStored, lastEnded >>

\* A group rebalance: the bus delivers again from the committed position.
Rebalance(p) ==
  /\ UNCHANGED notCalcVars
  /\ deliveries < MaxDeliveries
  /\ cursor[p] > busCommitted[p]
  /\ cursor' = [cursor EXCEPT ![p] = busCommitted[p]]
  /\ UNCHANGED << topic, busCommitted, commitQueue, deliveries,
                  inFlightOffsets, completedOffsets, lastCommittedOffset, pc,
                  marketBuffer, markets, pnls,
                  startedStored, lastEnded >>

Next ==
  \/ \E p \in Partitions : Deliver(p)
  \/ \E p \in Partitions, o \in Offsets : BufferHitReturns(p, o)
  \/ \E p \in Partitions, o \in Offsets : FindOneReturns(p, o)
  \/ \E p \in Partitions, o \in Offsets : FindOneFails(p, o)
  \/ \E p \in Partitions, o \in Offsets : FetchReturns(p, o)
  \/ \E p \in Partitions, o \in Offsets : FetchFails(p, o)
  \/ \E p \in Partitions, o \in Offsets : WriteCommits(p, o)
  \/ \E p \in Partitions, o \in Offsets : WriteDuplicate(p, o)
  \/ \E p \in Partitions, o \in Offsets : WriteFails(p, o)
  \/ CommitAck
  \/ CommitFail
  \/ \E p \in Partitions : Rebalance(p)

Spec == Init /\ [][Next]_vars

\* ======================================= trade memory buffer (SpecBuf)
Times == 0 .. MaxTime

\* Mutant of InRange: the end of the range is exclusive.
InRange_EndExclusive(trade, startTime, endTime) ==
  trade.time >= startTime /\ trade.time < endTime

\* memory-buffer.ts 19 and 65: the predicate of filter and of some
InRange(trade, startTime, endTime) ==
  trade.time >= startTime /\ trade.time <= endTime

\* memory-buffer.ts getTradesFromBuffer: tradeBuffer.filter(...)
getTradesFromBuffer(startTime, endTime) ==
  LET Keep(trade) == InRange(trade, startTime, endTime)
  IN  SelectSeq(tradeBuffer, Keep)

\* memory-buffer.ts hasTradesInRange: tradeBuffer.some(...)
hasTradesInRange(startTime, endTime) ==
  \E i \in 1 .. Len(tradeBuffer) : InRange(tradeBuffer[i], startTime, endTime)

\* memory-buffer.ts addTradeToBuffer, line 25: tradeBuffer.push(trade)
PushTrade(buf, trade) == Append(buf, trade)

\* Mutant of NextLastTradeTime: every added trade overwrites the value.
NextLastTradeTime_Overwrite(last, trade) == trade.time

\* memory-buffer.ts addTradeToBuffer, lines 27-29
NextLastTradeTime(last, trade) ==
  IF last = Nil \/ trade.time > last THEN trade.time ELSE last

\* buf without its i-th element: tradeBuffer.splice(i - 1, 1)
Splice(buf, i) == SubSeq(buf, 1, i - 1) \o SubSeq(buf, i + 1, Len(buf))

\* memory-buffer.ts removeOldTrades, lines 44-49: the loop from the last
\* index down to the first, removing the trades older than cutoffTime.
RECURSIVE RemoveFrom(_, _, _)
RemoveFrom(buf, i, cutoffTime) ==
  IF i < 1 THEN buf
  ELSE IF buf[i].time < cutoffTime
       THEN RemoveFrom(Splice(buf, i), i - 1, cutoffTime)
       ELSE RemoveFrom(buf, i - 1, cutoffTime)

\* memory-buffer.ts removeOldTrades, lines 38-49
removeOldTrades(buf, clock) ==
  RemoveFrom(buf, Len(buf), clock - MEMORY_RETENTION_MS)

ToSet(seq) == { seq[i] : i \in 1 .. Len(seq) }

\* Mutant of MergeEnd: the end of the last query overwrites the value.
MergeEnd_Overwrite(qEnd, endTime) == endTime

\* memory-buffer.ts updateQueriedRange, line 80:
\* endTime > queriedRangeEnd ? endTime : queriedRangeEnd
MergeEnd(qEnd, endTime) == IF endTime > qEnd THEN endTime ELSE qEnd

\* memory-buffer.ts updateQueriedRange, lines 83-85: shrink from the bottom
ShrinkStart(qStart, cutoffTime) ==
  IF qStart < cutoffTime THEN cutoffTime ELSE qStart

\* memory-buffer.ts updateQueriedRange, lines 88-90: extend backwards, but
\* not beyond the retention period
ExtendStart(qStart, startTime, cutoffTime) ==
  IF startTime < qStart /\ startTime >= cutoffTime THEN startTime ELSE qStart

\* memory-buffer.ts updateQueriedRange, lines 70-92, called at `clock`
updateQueriedRange(qr, startTime, endTime, clock) ==
  LET cutoffTime == clock - QUERIED_RANGE_RETENTION_MS
  IN  IF qr.queriedRangeStart = Nil \/ qr.queriedRangeEnd = Nil
      THEN [qr EXCEPT !.queriedRangeStart = startTime,
                      !.queriedRangeEnd = endTime,
                      !.ends = @ \cup {endTime}]
      ELSE [qr EXCEPT !.queriedRangeEnd = MergeEnd(@, endTime),
                      !.queriedRangeStart =
                         ExtendStart(ShrinkStart(@, cutoffTime), startTime,
                                     cutoffTime),
                      !.ends = @ \cup {endTime}]

\* memory-buffer.ts isPossibleOutOfOrderTrade, lines 97-110
isPossibleOutOfOrderTrade(tradeTime) ==
  IF queriedRange.queriedRangeStart = Nil \/ queriedRange.queriedRangeEnd = Nil
  THEN FALSE
  ELSE IF /\ tradeTime >= queriedRange.queriedRangeStart
          /\ tradeTime <= queriedRange.queriedRangeEnd
       THEN TRUE
       ELSE tradeTime < queriedRange.queriedRangeStart

\* A trade message is consumed: addTradeToBuffer(trade). The offset makes
\* the document unique.
AddTrade(t) ==
  /\ Cardinality(addedTrades) < MaxTrades
  /\ LET trade == [time |-> t, offset |-> Cardinality(addedTrades)]
     IN  /\ tradeBuffer' = PushTrade(tradeBuffer, trade)
         /\ lastTradeTime' = NextLastTradeTime(lastTradeTime, trade)
         /\ addedTrades' = addedTrades \cup {trade}
  /\ UNCHANGED << now, sweptTrades >>
  /\ UNCHANGED notBufVars

\* The cleanup timer fires: removeOldTrades()
Sweep ==
  /\ tradeBuffer' = removeOldTrades(tradeBuffer, now)
  /\ sweptTrades' = sweptTrades \cup (ToSet(tradeBuffer) \ ToSet(tradeBuffer'))
  /\ UNCHANGED << lastTradeTime, now, addedTrades >>
  /\ UNCHANGED notBufVars

\* Time passes.
Tick ==
  /\ now < MaxTime
  /\ now' = now + 1
  /\ UNCHANGED << tradeBuffer, lastTradeTime, addedTrades, sweptTrades >>
  /\ UNCHANGED notBufVars

InitBuf == CalcIdle /\ BufInit /\ RouterInit /\ BatchIdle /\ UpsertIdle /\ ShutdownInit /\ PnlIdle /\ AggIdle /\ RetryIdle /\ RangeInit

NextBuf ==
  \/ \E t \in Times : AddTrade(t)
  \/ Sweep
  \/ Tick

SpecBuf == InitBuf /\ [][NextBuf]_vars

\* ============================ trade memory buffer, deque variant (SpecDeque)
\* The second memory-buffer module of the service keeps the trades in a
\* deque (old trades at the front) and shares add and query with the array
\* variant; its sweep trims the front only.
\* removeOldTrades (deque), lines 208-221: pop the front while it is older
\* than cutoffTime, stop at the first trade that is not.
RECURSIVE TrimFront(_, _)
TrimFront(buf, cutoffTime) ==
  IF buf = << >> THEN buf
  ELSE IF Head(buf).time < cutoffTime
       THEN TrimFront(Tail(buf), cutoffTime)
       ELSE buf

\* removeOldTrades (deque), lines 202-221
removeOldTrades_Deque(buf, clock) ==
  TrimFront(buf, clock - MEMORY_RETENTION_MS)

\* The cleanup timer fires: removeOldTrades() of the deque variant
SweepFront ==
  /\ tradeBuffer' = removeOldTrades_Deque(tradeBuffer, now)
  /\ sweptTrades' = sweptTrades \cup (ToSet(tradeBuffer) \ ToSet(tradeBuffer'))
  /\ UNCHANGED << lastTradeTime, now, addedTrades >>
  /\ UNCHANGED notBufVars

NextDeque ==
  \/ \E t \in Times : AddTrade(t)
  \/ SweepFront
  \/ Tick

SpecDeque == InitBuf /\ [][NextDeque]_vars

\* ============================== trade range-query router (SpecRouter)
\* The (start, end) of the requests the calculation service sends.
QueryRanges == { <<1, 2>> }
\* What the persistence service may answer to a range query.
PersistenceReplies(startTime, endTime) == { << >>, << [time |-> startTime] >> }

\* getTradesForPeriod, lines 128-132: trades.map(t => ({tradeType, volume,
\* time})); the document's partition and offset are dropped.
ToReply(trades) == [i \in 1 .. Len(trades) |-> [time |-> trades[i].time]]

\* callback(null, {trades}) / callback({code, message}): the request is
\* answered at `clock`.
Answered(q, how, clock, err, trades) ==
  [q EXCEPT !.phase = "answered", !.via = how, !.answeredAt = clock,
            !.wake = Nil, !.error = err, !.trades = trades]

\* Mutant of SeesLaterTrade: any trade after the end counts, new or not.
SeesLaterTrade_NotOnlyNew(q, last) == last # Nil /\ last > q.end

\* Mutant of SeesLaterTrade: any new lastTradeTime counts.
SeesLaterTrade_AnyNew(q, last) == last # Nil /\ (q.t0 = Nil \/ last # q.t0)

\* waitForTradeAfterEndTimeOrTimeout, lines 70-79: the test that ends the
\* wait (isNewTrade && currentLastTradeTime > end).
SeesLaterTrade(q, last) ==
  /\ last # Nil
  /\ (q.t0 = Nil \/ last # q.t0)
  /\ last > q.end

\* Mutant of ReadBuffer: the trades later than t0, which arrived while
\* the request was waiting, are left out.
ReadBuffer_UpToT0(q) ==
  LET Old(trade) == q.t0 # Nil /\ trade.time <= q.t0
  IN  ToReply(SelectSeq(getTradesFromBuffer(q.start, q.end), Old))

\* getTradesForPeriod, lines 125-132: after the wait, the buffer is read
\* and mapped to the reply
ReadBuffer(q) == ToReply(getTradesFromBuffer(q.start, q.end))

\* waitForTradeAfterEndTimeOrTimeout, lines 69-91: one evaluation of the
\* loop at time `clock`; when the wait is over, getTradesForPeriod goes on
\* to answer from the buffer (lines 125-133).
WaitLoop(q, clock) ==
  IF clock - q.startedAt < WAIT_TIMEOUT_MS
  THEN IF SeesLaterTrade(q, lastTradeTime)
       THEN Answered(q, "trade", clock, FALSE, ReadBuffer(q))
       ELSE [q EXCEPT !.phase = "waiting", !.wake = clock + intervalMs]
  ELSE Answered(q, "timeout", clock, FALSE, ReadBuffer(q))

\* Mutant of RpcFailure: the error of the persistence call is passed on.
RpcFailure_Propagates(q, clock) == Answered(q, "fallback", clock, TRUE, << >>)

\* getTradesForPeriod, lines 146-152: the persistence call rejected
RpcFailure(q, clock) == Answered(q, "fallback", clock, FALSE, << >>)

\* getTradesForPeriod (lines 95-125, 134-138) up to its first await,
\* updateQueriedRange(start, end) of line 107 included. A new request is
\* taken when none is being served.
Request(startTime, endTime) ==
  /\ query.phase \in {"idle", "answered"}
  /\ LET q == [NoQuery EXCEPT !.start = startTime, !.end = endTime,
                              !.t0 = lastTradeTime, !.startedAt = now]
     IN  query' =
           IF hasTradesInRange(startTime, endTime)
           THEN WaitLoop(q, now)
           ELSE [q EXCEPT !.phase = "rpc", !.wake = now + WAIT_TIMEOUT_MS]
  /\ queriedRange' = updateQueriedRange(queriedRange, startTime, endTime, now)
  /\ UNCHANGED notRouterRangeVars

\* The timer of the wait fired (line 87): the next evaluation of the loop.
Poll ==
  /\ query.phase = "waiting"
  /\ now >= query.wake
  /\ query' = WaitLoop(query, now)
  /\ UNCHANGED notRouterVars

\* The persistence service answered before the deadline (lines 138-145).
RpcReturns(resp) ==
  /\ query.phase = "rpc"
  /\ now < query.wake
  /\ query' = Answered(query, "persistence", now, FALSE, resp)
  /\ UNCHANGED notRouterVars

\* The persistence call failed, or its deadline passed (lines 39-52).
RpcFails ==
  /\ query.phase = "rpc"
  /\ query' = RpcFailure(query, now)
  /\ UNCHANGED notRouterVars

\* Timers and deadlines fire when they are due: the clock does not move
\* past a pending one.
TimersNotDue == query.phase \in {"waiting", "rpc"} => now < query.wake

TickRouter == TimersNotDue /\ Tick

NextRouter ==
  \/ \E t \in Times : AddTrade(t)
  \/ Sweep
  \/ TickRouter
  \/ \E r \in QueryRanges : Request(r[1], r[2])
  \/ Poll
  \/ \E r \in QueryRanges : \E resp \in PersistenceReplies(r[1], r[2]) :
       query.start = r[1] /\ query.end = r[2] /\ RpcReturns(resp)
  \/ RpcFails

SpecRouter == InitBuf /\ [][NextRouter]_vars

\* ============================ trade persistence pipeline (SpecBatch)
\* Mutant of NextHighest: the offset of the last trade is tracked.
NextHighest_Overwrite(highest, trade) ==
  Put(highest, trade.partition, trade.offset)

\* batch-writer.ts 23-27: track the highest offset per partition
NextHighest(highest, trade) ==
  IF ~Has(highest, trade.partition)
     \/ trade.offset > highest[trade.partition]
  THEN Put(highest, trade.partition, trade.offset)
  ELSE highest

\* batch-writer.ts 19-28
addTradeToBatch(trade) ==
  /\ pendingTrades' = Append(pendingTrades, trade)
  /\ highestOffsetByPartition' = NextHighest(highestOffsetByPartition, trade)

\* Mutant of OffsetsToCommit: the highest offset itself is committed.
OffsetsToCommit_NoIncrement(highest) == highest

\* batch-writer.ts 75-82: highestOffset + 1 for every tracked partition
OffsetsToCommit(highest) == [p \in DOMAIN highest |-> highest[p] + 1]

\* Mutant of RestorePending: the snapshot is dropped.
RestorePending_Drop(pending, tradesToFlush) == pending

\* batch-writer.ts 93, 128, 136, 142: pendingTrades.push(...tradesToFlush)
RestorePending(pending, tradesToFlush) == pending \o tradesToFlush

\* The trades the pipeline holds: pending or in a flush in progress
RECURSIVE Flushing(_)
Flushing(F) ==
  IF F = {} THEN 0
  ELSE LET f == CHOOSE g \in F : TRUE
       IN  Len(flushes[f].tradesToFlush) + Flushing(F \ {f})
Held == Len(pendingTrades) + Flushing(FlushIds)

\* batch-writer.ts 42-50: the keys the upserts `ok` (positions in the
\* snapshot) leave in the collection; an upsert inserts the document of
\* its key or replaces the one that is there.
Written(tradesToFlush, ok) == { tradesToFlush[i] : i \in ok }

\* index.ts 84-112: eachMessage. An invalid message is logged and dropped,
\* a valid one goes to addTradeToBatch.
ConsumeTrade(p) ==
  /\ tradesCursor[p] \in TradeOffsets
  /\ Held < MaxPending
  /\ LET o == tradesCursor[p]
         trade == [partition |-> p, offset |-> o]
     IN  /\ tradesCursor' = [tradesCursor EXCEPT ![p] = o + 1]
         /\ IF tradesTopic[p][o]
            THEN /\ addTradeToBatch(trade)
                 /\ seenSinceCommit' =
                      Put(seenSinceCommit, p,
                          IF Has(seenSinceCommit, p) /\ seenSinceCommit[p] > o
                          THEN seenSinceCommit[p] ELSE o)
            ELSE UNCHANGED << pendingTrades, highestOffsetByPartition,
                              seenSinceCommit >>
  /\ UNCHANGED << tradesTopic, tradesCommitted, flushes, storedTrades,
                  lastFlushResult >>
  /\ UNCHANGED notBatchVars

\* The bus delivers a partition again from the committed position of the
\* group (index.ts 82-83: manual commit; a rebalance or a reconnect).
RedeliverTrades(p) ==
  /\ tradesCursor[p] > tradesCommitted[p]
  /\ tradesCursor' = [tradesCursor EXCEPT ![p] = tradesCommitted[p]]
  /\ UNCHANGED << tradesTopic, tradesCommitted, pendingTrades,
                  highestOffsetByPartition, flushes, storedTrades,
                  seenSinceCommit, lastFlushResult >>
  /\ UNCHANGED notBatchVars

\* batch-writer.ts 31-50: the batch timer (or shutdown) calls
\* flushBatchToDB; it snapshots pending, empties it and awaits the bulk
\* write. (With nothing pending it returns at once.)
FlushStart(f) ==
  /\ flushes[f].pc = "idle"
  /\ \A g \in FlushIds : g < f => flushes[g].pc # "idle"
  /\ pendingTrades # << >>
  /\ flushes' = [flushes EXCEPT ![f] =
                   [IdleFlush EXCEPT !.pc = "bulkWrite",
                                     !.tradesToFlush = pendingTrades]]
  /\ pendingTrades' = << >>
  /\ UNCHANGED << tradesTopic, tradesCursor, tradesCommitted,
                  highestOffsetByPartition, storedTrades, seenSinceCommit,
                  lastFlushResult >>
  /\ UNCHANGED notBatchVars

\* batch-writer.ts 72-85 and 110-122: with a tracked partition the offsets
\* to commit are computed and commitOffsets is awaited; with none the
\* flush is over.
BeginCommit(f) ==
  IF highestOffsetByPartition # << >>
  THEN /\ flushes' = [flushes EXCEPT ![f] =
                        [@ EXCEPT !.pc = "commit",
                                  !.offsetsToCommit =
                                    OffsetsToCommit(highestOffsetByPartition)]]
       /\ UNCHANGED lastFlushResult
  ELSE /\ flushes' = [flushes EXCEPT ![f] = IdleFlush]
       /\ lastFlushResult' = "written"

\* batch-writer.ts 50-82: the bulk write resolved, every upsert inserted or
\* matched its key.
BulkWriteReturns(f) ==
  /\ flushes[f].pc = "bulkWrite"
  /\ storedTrades' = storedTrades
                     \cup Written(flushes[f].tradesToFlush,
                                  DOMAIN flushes[f].tradesToFlush)
  /\ BeginCommit(f)
  /\ UNCHANGED << tradesTopic, tradesCursor, tradesCommitted, pendingTrades,
                  highestOffsetByPartition, seenSinceCommit >>
  /\ UNCHANGED notBatchVars

\* batch-writer.ts 96-138: the bulk write threw a MongoBulkWriteError; the
\* operations `ok` succeeded (not all of them). With one success the
\* offsets are committed as after a full success, with none the snapshot is
\* restored and nothing is committed.
BulkWriteError(f, ok) ==
  /\ flushes[f].pc = "bulkWrite"
  /\ ok \subseteq DOMAIN flushes[f].tradesToFlush
  /\ ok # DOMAIN flushes[f].tradesToFlush
  /\ storedTrades' = storedTrades \cup Written(flushes[f].tradesToFlush, ok)
  /\ IF Cardinality(ok) > 0
     THEN /\ BeginCommit(f)
          /\ UNCHANGED pendingTrades
     ELSE /\ pendingTrades' =
               RestorePending(pendingTrades, flushes[f].tradesToFlush)
          /\ flushes' = [flushes EXCEPT ![f] = IdleFlush]
          /\ lastFlushResult' = "allFailed"
  /\ UNCHANGED << tradesTopic, tradesCursor, tradesCommitted,
                  highestOffsetByPartition, seenSinceCommit >>
  /\ UNCHANGED notBatchVars

\* batch-writer.ts 139-144: the bulk write threw another error (the
\* connection failed, a timeout).
BulkWriteThrows(f) ==
  /\ flushes[f].pc = "bulkWrite"
  /\ pendingTrades' = RestorePending(pendingTrades, flushes[f].tradesToFlush)
  /\ flushes' = [flushes EXCEPT ![f] = IdleFlush]
  /\ lastFlushResult' = "exception"
  /\ UNCHANGED << tradesTopic, tradesCursor, tradesCommitted,
                  highestOffsetByPartition, storedTrades, seenSinceCommit >>
  /\ UNCHANGED notBatchVars

\* batch-writer.ts 85-89 and 122-124: commitOffsets resolved; the tracked
\* offsets are cleared.
CommitOffsetsSucceeds(f) ==
  /\ flushes[f].pc = "commit"
  /\ tradesCommitted' =
       [p \in TradePartitions |->
          IF Has(flushes[f].offsetsToCommit, p)
          THEN flushes[f].offsetsToCommit[p] ELSE tradesCommitted[p]]
  /\ highestOffsetByPartition' = << >>
  /\ seenSinceCommit' = << >>
  /\ flushes' = [flushes EXCEPT ![f] = IdleFlush]
  /\ lastFlushResult' = "committed"
  /\ UNCHANGED << tradesTopic, tradesCursor, pendingTrades, storedTrades >>
  /\ UNCHANGED notBatchVars

\* batch-writer.ts 90-94 and 125-130: commitOffsets threw; the snapshot is
\* pushed back to pending and the tracked offsets stay.
CommitOffsetsFails(f) ==
  /\ flushes[f].pc = "commit"
  /\ pendingTrades' = RestorePending(pendingTrades, flushes[f].tradesToFlush)
  /\ flushes' = [flushes EXCEPT ![f] = IdleFlush]
  /\ lastFlushResult' = "commitFailed"
  /\ UNCHANGED << tradesTopic, tradesCursor, tradesCommitted,
                  highestOffsetByPartition, storedTrades, seenSinceCommit >>
  /\ UNCHANGED notBatchVars

InitBatch == CalcIdle /\ BufInit /\ RouterInit /\ BatchInit /\ UpsertIdle /\ ShutdownInit /\ PnlIdle /\ AggIdle /\ RetryIdle /\ RangeInit

NextBatch ==
  \/ \E p \in TradePartitions : ConsumeTrade(p)
  \/ \E p \in TradePartitions : RedeliverTrades(p)
  \/ \E f \in FlushIds : FlushStart(f)
  \/ \E f \in FlushIds : BulkWriteReturns(f)
  \/ \E f \in FlushIds : \E ok \in SUBSET (1 .. MaxPending) :
       BulkWriteError(f, ok)
  \/ \E f \in FlushIds : BulkWriteThrows(f)
  \/ \E f \in FlushIds : CommitOffsetsSucceeds(f)
  \/ \E f \in FlushIds : CommitOffsetsFails(f)

SpecBatch == InitBatch /\ [][NextBatch]_vars

\* ================================= bulk upsert of a batch (SpecUpsert)
\* index.ts 98-105: the document built from the message at (p, o); its
\* other fields are those of the message, createdAt is the time of the
\* delivery.
TradeDocument(p, o, c) == [partition |-> p, offset |-> o, createdAt |-> c]

\* batch-writer.ts 44: filter { partition, offset }
MatchesFilter(doc, trade) ==
  doc.partition = trade.partition /\ doc.offset = trade.offset

\* Mutant of updateOne: the document is inserted whatever the collection
\* holds.
updateOne_InsertOnly(coll, trade) == Append(coll, trade)

\* batch-writer.ts 43-47: updateOne with $set: trade and upsert: true. The
\* first document that matches the filter gets every field of the trade;
\* without a match the trade is inserted.
updateOne(coll, trade) ==
  IF \E i \in DOMAIN coll : MatchesFilter(coll[i], trade)
  THEN LET i == Min({ j \in DOMAIN coll : MatchesFilter(coll[j], trade) })
       IN  [coll EXCEPT ![i] = trade]
  ELSE Append(coll, trade)

\* batch-writer.ts 50: bulkWrite applies the operations one after the other
RECURSIVE bulkWrite(_, _)
bulkWrite(coll, operations) ==
  IF operations = << >> THEN coll
  ELSE bulkWrite(updateOne(coll, Head(operations)), Tail(operations))

\* ordered: false, the store may apply the operations in any order
Orders(n) ==
  { order \in [1 .. n -> 1 .. n] :
      \A i \in 1 .. n : \A j \in 1 .. n : i # j => order[i] # order[j] }

BatchOffsets == 0 .. (MaxBatchOffset - 1)
\* The batches: up to MaxBatch documents built at time 1
BatchDocuments ==
  { TradeDocument(p, o, 1) : p \in TradePartitions, o \in BatchOffsets }
Batches ==
  UNION { [1 .. n -> BatchDocuments] : n \in 1 .. MaxBatch }

\* db.ts 24-30: the collection is empty or holds an earlier document; the
\* unique index allows one document per (partition, offset)
UpsertInit ==
  /\ tradesCollection \in { << >>, << TradeDocument(0, 0, 0) >> }
  /\ upsertBatch \in Batches
  /\ flushCount = 0
  /\ afterFirstFlush = << >>
  /\ rebuilt = FALSE

\* batch-writer.ts 42-50: the batch is written, its operations applied in
\* the order `order`.
FlushBatch(order) ==
  /\ flushCount < MaxFlushCount
  /\ order \in Orders(Len(upsertBatch))
  /\ tradesCollection' =
       bulkWrite(tradesCollection,
                 [i \in DOMAIN upsertBatch |-> upsertBatch[order[i]]])
  /\ flushCount' = flushCount + 1
  /\ afterFirstFlush' =
       IF flushCount = 0 THEN tradesCollection' ELSE afterFirstFlush
  /\ UNCHANGED << upsertBatch, rebuilt >>
  /\ UNCHANGED notUpsertVars

\* index.ts 84-108: the messages of the batch are delivered again and the
\* same trades are built again, with createdAt: new Date().
RebuildBatch ==
  /\ flushCount > 0
  /\ ~rebuilt
  /\ upsertBatch' =
       [i \in DOMAIN upsertBatch |->
          TradeDocument(upsertBatch[i].partition, upsertBatch[i].offset,
                        upsertBatch[i].createdAt + 1)]
  /\ rebuilt' = TRUE
  /\ UNCHANGED << tradesCollection, flushCount, afterFirstFlush >>
  /\ UNCHANGED notUpsertVars

InitUpsert == CalcIdle /\ BufInit /\ RouterInit /\ BatchIdle /\ UpsertInit /\ ShutdownInit /\ PnlIdle /\ AggIdle /\ RetryIdle /\ RangeInit

NextUpsert ==
  \/ \E order \in Orders(Len(upsertBatch)) : FlushBatch(order)
  \/ RebuildBatch

SpecUpsert == InitUpsert /\ [][NextUpsert]_vars

\* ============================================== properties (SpecUpsert)
\* The trade of each document: the document without createdAt
Trades(coll) ==
  [i \in DOMAIN coll |->
     [partition |-> coll[i].partition, offset |-> coll[i].offset]]
\* At most one document per (partition, offset)
UniqueKeys(coll) ==
  \A i \in DOMAIN coll : \A j \in DOMAIN coll :
    MatchesFilter(coll[i], coll[j]) => i = j

Snapshot(flush) == IF flush = Nil THEN 0 ELSE flush

\* index.ts 84-108: a valid trade is consumed and added to pending; the
\* consumer runs until consumer.disconnect() has returned.
ConsumeWhileUp ==
  /\ shutdownPc # "exited"
  /\ consumerConnected
  /\ pendingCount + Snapshot(finalFlush) + Snapshot(timerFlush) < MaxUnflushed
  /\ pendingCount' = pendingCount + 1
  /\ UNCHANGED << shutdownPc, batchWriteTimer, finalFlush, timerFlush,
                  consumerConnected, dbConnected, timerAtFinalFlush,
                  timerFlushInShutdown >>
  /\ UNCHANGED notShutdownVars

\* batch-writer.ts 154-156 and 31-50: the batch timer fires and
\* flushBatchToDB snapshots pending. (With nothing pending it returns.)
TimerFires ==
  /\ shutdownPc # "exited"
  /\ batchWriteTimer
  /\ timerFlush = Nil
  /\ pendingCount > 0
  /\ timerFlush' = pendingCount
  /\ pendingCount' = 0
  /\ timerFlushInShutdown' =
       (timerFlushInShutdown \/ shutdownPc # "running")
  /\ UNCHANGED << shutdownPc, batchWriteTimer, finalFlush, consumerConnected,
                  dbConnected, timerAtFinalFlush >>
  /\ UNCHANGED notShutdownVars

\* batch-writer.ts 50-145: the flush of the timer is over; it has written
\* its snapshot or pushed it back to pending.
TimerFlushEnds(restored) ==
  /\ shutdownPc # "exited"
  /\ timerFlush # Nil
  /\ pendingCount' = pendingCount + (IF restored THEN timerFlush ELSE 0)
  /\ timerFlush' = Nil
  /\ UNCHANGED << shutdownPc, batchWriteTimer, finalFlush, consumerConnected,
                  dbConnected, timerAtFinalFlush, timerFlushInShutdown >>
  /\ UNCHANGED notShutdownVars

\* batch-writer.ts 160-164
stopBatchTimer == batchWriteTimer' = FALSE

\* index.ts 47-49: flushBatchToDB has returned; the timer is stopped and
\* consumer.disconnect() is awaited.
AfterFinalFlush ==
  /\ stopBatchTimer
  /\ shutdownPc' = "disconnecting"

\* index.ts 31-46: SIGTERM or SIGINT; shutdown() calls flushBatchToDB, which
\* returns at once with nothing pending and awaits its bulk write
\* otherwise.
Signal ==
  /\ shutdownPc = "running"
  /\ timerAtFinalFlush' = batchWriteTimer
  /\ IF pendingCount = 0
     THEN /\ AfterFinalFlush
          /\ UNCHANGED << pendingCount, finalFlush >>
     ELSE /\ finalFlush' = pendingCount
          /\ pendingCount' = 0
          /\ shutdownPc' = "flushing"
          /\ UNCHANGED batchWriteTimer
  /\ UNCHANGED << timerFlush, consumerConnected, dbConnected,
                  timerFlushInShutdown >>
  /\ UNCHANGED notShutdownVars

\* index.ts 46-49: the flush shutdown() awaits is over.
FinalFlushEnds(restored) ==
  /\ shutdownPc = "flushing"
  /\ pendingCount' = pendingCount + (IF restored THEN finalFlush ELSE 0)
  /\ finalFlush' = Nil
  /\ AfterFinalFlush
  /\ UNCHANGED << timerFlush, consumerConnected, dbConnected,
                  timerAtFinalFlush, timerFlushInShutdown >>
  /\ UNCHANGED notShutdownVars

\* index.ts 49-51: consumer.disconnect() returned; closeDatabase() is
\* awaited.
DisconnectReturns ==
  /\ shutdownPc = "disconnecting"
  /\ consumerConnected' = FALSE
  /\ shutdownPc' = "closing"
  /\ UNCHANGED << batchWriteTimer, pendingCount, finalFlush, timerFlush,
                  dbConnected, timerAtFinalFlush, timerFlushInShutdown >>
  /\ UNCHANGED notShutdownVars

\* index.ts 51-52 and 34: closeDatabase() returned; process.exit(0).
CloseReturns ==
  /\ shutdownPc = "closing"
  /\ dbConnected' = FALSE
  /\ shutdownPc' = "exited"
  /\ UNCHANGED << batchWriteTimer, pendingCount, finalFlush, timerFlush,
                  consumerConnected, timerAtFinalFlush, timerFlushInShutdown >>
  /\ UNCHANGED notShutdownVars

\* index.ts 53-55 and 34: consumer.disconnect() or closeDatabase() threw;
\* the error is logged and the process exits.
ShutdownThrows ==
  /\ shutdownPc \in {"disconnecting", "closing"}
  /\ shutdownPc' = "exited"
  /\ UNCHANGED << batchWriteTimer, pendingCount, finalFlush, timerFlush,
                  consumerConnected, dbConnected, timerAtFinalFlush,
                  timerFlushInShutdown >>
  /\ UNCHANGED notShutdownVars

InitShutdown ==
  CalcIdle /\ BufInit /\ RouterInit /\ BatchIdle /\ UpsertIdle /\ ShutdownInit /\ PnlIdle /\ AggIdle /\ RetryIdle /\ RangeInit

NextShutdown ==
  \/ ConsumeWhileUp
  \/ TimerFires
  \/ \E restored \in BOOLEAN : TimerFlushEnds(restored)
  \/ Signal
  \/ \E restored \in BOOLEAN : FinalFlushEnds(restored)
  \/ DisconnectReturns
  \/ CloseReturns
  \/ ShutdownThrows

SpecShutdown == InitShutdown /\ [][NextShutdown]_vars

\* ============================================ properties (SpecShutdown)
\* C23: on a signal the batch timer is stopped first, then one final flush
\* runs, with no timer-driven flush starting during or after it, and only
\* then are the consumer and the store connection closed.
C23_TimerStoppedBeforeFinalFlush ==
  /\ shutdownPc # "running" => ~timerAtFinalFlush
  /\ ~timerFlushInShutdown
  /\ (~consumerConnected \/ ~dbConnected)
       => shutdownPc \in {"closing", "exited"} /\ finalFlush = Nil

\* =============================================== properties (SpecBatch)
\* The flush f ends in this step with result `how`
FlushEnds(f, how) ==
  /\ flushes[f].pc # "idle"
  /\ flushes'[f].pc = "idle"
  /\ lastFlushResult' = how
\* The flush f asks the bus to commit in this step
CommitRequested(f) == flushes[f].pc = "bulkWrite" /\ flushes'[f].pc = "commit"
\* How often the trade t occurs in the sequence
Occurrences(seq, t) == Cardinality({ i \in DOMAIN seq : seq[i] = t })

\* C18: when a flush fails with no successful write (a bulk-write error
\* with upserted + matched = 0, or any other exception), every trade of the
\* flushed snapshot is back in pending, no offset is committed and
\* highestOffsetByPartition is unchanged.
C18_FailedFlushRestoresSnapshot ==
  [][\A f \in FlushIds :
       (FlushEnds(f, "allFailed") \/ FlushEnds(f, "exception")) =>
         /\ \A i \in DOMAIN flushes[f].tradesToFlush :
              Occurrences(pendingTrades', flushes[f].tradesToFlush[i])
                = Occurrences(pendingTrades, flushes[f].tradesToFlush[i])
                  + Occurrences(flushes[f].tradesToFlush,
                                flushes[f].tradesToFlush[i])
         /\ tradesCommitted' = tradesCommitted
         /\ highestOffsetByPartition' = highestOffsetByPartition]_vars

\* A flush failed without a write, and the next flush has taken the
\* restored trades again while their offsets are still tracked.
C18_Witness ==
  /\ lastFlushResult \in {"allFailed", "exception"}
  /\ \E f \in FlushIds : /\ flushes[f].pc = "bulkWrite"
                         /\ Len(flushes[f].tradesToFlush) = MaxPending
  /\ highestOffsetByPartition # << >>
  /\ \A p \in TradePartitions : tradesCommitted[p] = 0

C20_CommitFailureRestoresToFront ==
  [][\A f \in FlushIds :
       FlushEnds(f, "commitFailed") =>
         /\ pendingTrades' = flushes[f].tradesToFlush \o pendingTrades
         /\ highestOffsetByPartition' = highestOffsetByPartition]_vars


\* The trade is in pending or in the snapshot of a flush in progress
HeldTrade(t) ==
  \/ \E i \in DOMAIN pendingTrades : pendingTrades[i] = t
  \/ \E f \in FlushIds :
       \E i \in DOMAIN flushes[f].tradesToFlush :
         flushes[f].tradesToFlush[i] = t

\* C21: after a partial bulk-write failure with a success the offsets are
\* committed as after a full success (C19), and the operations that failed
\* are not lost: a valid trade below the committed position of its
\* partition, which the bus will not deliver again, is in the store or is
\* still held by the pipeline for its next flush.
C21_FailedOperationsAreStored ==
  \A p \in TradePartitions : \A o \in TradeOffsets :
    (tradesTopic[p][o] /\ o < tradesCommitted[p])
      => \/ [partition |-> p, offset |-> o] \in storedTrades
         \/ HeldTrade([partition |-> p, offset |-> o])

\* C24: no position above the offset of a consumed trade that is only in
\* the pending list (not written by any batch) is ever committed.
C24_NoCommitAbovePendingTrade ==
  \A i \in DOMAIN pendingTrades :
    pendingTrades[i] \notin storedTrades
      => tradesCommitted[pendingTrades[i].partition] <= pendingTrades[i].offset

\* =================================================== properties (Spec)
Valid(p, j) == topic[p][j].messageType = "market"
\* The task that ended last is the one of (p, o), and it ended one of `hows`
Ended(p, o, hows) ==
  /\ lastEnded.partition = p
  /\ lastEnded.offset = o
  /\ lastEnded.how \in hows
Running(p, o) == pc[p][o] # "idle"
TaskEnds(p, o) == Running(p, o) /\ pc'[p][o] = "idle"
\* The first offset of the prefix a commit request has to wait for
PrefixStart(last) == IF last = Nil THEN StartOffset ELSE last + 1
MarketsOf(msg) ==
  { m \in markets : m.startTime = msg.startTime /\ m.endTime = msg.endTime }
PnlsOf(msg) ==
  { d \in pnls : d.marketStartTime = msg.startTime
                 /\ d.marketEndTime = msg.endTime }

\* C1: on every partition each offset the bus acknowledges is exactly one
\* more than the offset acknowledged before it (none twice, none skipped,
\* none out of order).
C1_CommitsAscendByOne ==
  [][ CommitAck =>
        LET req == Head(commitQueue)
        IN  Has(lastCommittedOffset, req.partition) =>
              req.offset = lastCommittedOffset[req.partition] + 1 ]_vars

\* C2: a commit request for offset k is only in flight when every offset of
\* a market message in [lastCommitted+1 .. k-1] is in completed
\* (lastCommitted+1 is the group's start position while nothing is committed).
C2_CommitWaitsForPrefix ==
  \A i \in 1 .. Len(commitQueue) :
    LET r == commitQueue[i]
    IN  \A j \in PrefixStart(r.last) .. (r.offset - 1) :
          Valid(r.partition, j) => j \in Get(completedOffsets, r.partition)

\* C3: while nothing has been committed on a partition, no commit is sent
\* for an offset above one that is still in flight: the higher offsets that
\* complete first wait for the lowest in-flight offset.
C3_NoCommitAboveInFlight ==
  \A p \in Partitions :
    ~Has(lastCommittedOffset, p) =>
      \A i \in 1 .. Len(commitQueue) :
        commitQueue[i].partition = p =>
          \A j \in Get(inFlightOffsets, p) : j >= commitQueue[i].offset

\* C4: at-least-once: whenever position n is committed on a partition,
\* every market message of the partition with offset < n has its market
\* and PnL in the store.
C4_CommittedImpliesStored ==
  \A p \in Partitions :
    \A j \in StartOffset .. (busCommitted[p] - 1) :
      Valid(p, j) => Stored(topic[p][j])

\* C5: every PnL document has exactly one market document with the same
\* (startTime, endTime), and every market document has a PnL document:
\* both exist or neither does.
C5_MarketAndPnlPaired ==
  /\ \A d \in pnls :
       Cardinality({ m \in markets : m.startTime = d.marketStartTime
                                     /\ m.endTime = d.marketEndTime }) = 1
  /\ \A m \in markets :
       \E d \in pnls : d.marketStartTime = m.startTime
                       /\ d.marketEndTime = m.endTime

\* C5 witness: the store holds the pairs of two intervals, and the
\* transaction that ended last aborted (on a duplicate key or another
\* error).
C5_Witness ==
  /\ Cardinality(pnls) = 2
  /\ lastEnded.how \in {"dupkey", "txnError"}

\* A task runs on a message whose interval was durably processed when the
\* task started (found in the buffer, or in the store but not the buffer).
RunsOnProcessed(p, o) ==
  pc[p][o] = "hit" \/ (Running(p, o) /\ startedStored[p][o])

\* C6 (as claimed): every step of a task on an already processed interval
\* ends the task, writes nothing, and the task returns skipped = true (its
\* offset is completed).
C6_ProcessedIsSkipped ==
  [][ \A p \in Partitions, o \in Offsets :
        (RunsOnProcessed(p, o) /\ pc'[p][o] # pc[p][o]) =>
          /\ pc'[p][o] = "idle"
          /\ markets' = markets /\ pnls' = pnls
          /\ Ended(p, o, {"buffer", "found"})'
          /\ o \in completedOffsets'[p] ]_vars

\* C6 (amended): ... writes nothing, and returns skipped = true or, when
\* the interval is no longer in the buffer and the store lookup itself
\* fails, throws.
C6_ProcessedIsSkippedOrLookupFails ==
  [][ \A p \in Partitions, o \in Offsets :
        (RunsOnProcessed(p, o) /\ pc'[p][o] # pc[p][o]) =>
          /\ pc'[p][o] = "idle"
          /\ markets' = markets /\ pnls' = pnls
          /\ \/ /\ Ended(p, o, {"buffer", "found"})'
                /\ o \in completedOffsets'[p]
             \/ /\ pc[p][o] = "find"
                /\ Ended(p, o, {"thrown"})'
                /\ completedOffsets' = completedOffsets ]_vars

\* C6 witness: a redelivered message was skipped by the store lookup after
\* its own market document was written and had left the buffer, while the
\* redelivery of another one was answered from the buffer.
C6_Witness ==
  \E p \in Partitions, o \in Offsets :
    /\ Ended(p, o, {"found"})
    /\ MarketDoc(p, o) \in markets
    /\ ~InMarketBuffer(topic[p][o])
    /\ o \in completedOffsets[p]
    /\ \E o2 \in Offsets : pc[p][o2] = "hit" /\ MarketDoc(p, o2) \in markets

\* C7: when a write loses against a concurrent writer of the same interval
\* (duplicate key), nothing is written, exactly one market and one PnL
\* document of the interval exist, the task returns and its offset is
\* completed; on any other transaction error the task throws and its
\* offset is not completed.
C7_DuplicateKeyIsSuccess ==
  [][ \A p \in Partitions, o \in Offsets :
        (pc[p][o] = "write" /\ pc'[p][o] = "idle") =>
          /\ Cardinality(MarketsOf(topic[p][o])') <= 1
          /\ Cardinality(PnlsOf(topic[p][o])') <= 1
          /\ Ended(p, o, {"dupkey"})' =>
               /\ markets' = markets /\ pnls' = pnls
               /\ Cardinality(MarketsOf(topic[p][o])') = 1
               /\ Cardinality(PnlsOf(topic[p][o])') = 1
               /\ o \in completedOffsets'[p]
               /\ o \notin inFlightOffsets'[p]
          /\ Ended(p, o, {"txnError"})' =>
               /\ markets' = markets /\ pnls' = pnls
               /\ completedOffsets' = completedOffsets
               /\ o \notin inFlightOffsets'[p] ]_vars

\* C7 witness: a task lost the race against the writer of another offset
\* with the same interval and its offset is completed.
C7_Witness ==
  \E p \in Partitions, o \in Offsets, o2 \in Offsets :
    /\ o # o2
    /\ Ended(p, o, {"dupkey"})
    /\ topic[p][o] = topic[p][o2]
    /\ MarketDoc(p, o2) \in markets
    /\ o \in Get(completedOffsets, p)

\* C8: when the task of offset k throws, k leaves inFlight, nothing is
\* added to completed and no commit is sent; and a delivery of an offset
\* that is not in flight (so also of k, later) is admitted: the offset is
\* in flight afterwards and its task runs.
C8_ThrowLeavesOffsetUntracked ==
  [][ \A p \in Partitions, o \in Offsets :
        /\ (TaskEnds(p, o) /\ Ended(p, o, {"thrown", "txnError"})') =>
              /\ o \notin inFlightOffsets'[p]
              /\ completedOffsets' = completedOffsets
              /\ commitQueue' = commitQueue
              /\ lastCommittedOffset' = lastCommittedOffset
        /\ (/\ cursor[p] = o /\ cursor'[p] = o + 1
            /\ Valid(p, o) /\ o \notin Get(inFlightOffsets, p)) =>
              /\ o \in inFlightOffsets'[p]
              /\ Running(p, o)' ]_vars

\* C8 witness: an offset whose task threw is being processed again.
C8_Witness ==
  \E p \in Partitions, o \in Offsets :
    /\ Ended(p, o, {"thrown", "txnError"})
    /\ pc[p][o] \in {"find", "fetch", "write"}
    /\ o \in inFlightOffsets[p]

\* The offsets of the partition whose message is durably processed: its
\* own market and PnL document are written.
ProcessedOffsets(p) ==
  { j \in Offsets :
      Valid(p, j) /\ MarketDoc(p, j) \in markets /\ PnLDoc(p, j) \in pnls }

\* C9 (as claimed): a committed position is greater than the offset of
\* every durably processed message of the partition.
C9_CommittedAboveEveryProcessed ==
  \A p \in Partitions :
    Has(lastCommittedOffset, p) =>
      \A j \in ProcessedOffsets(p) : busCommitted[p] > j

\* C9 (amended): a committed position is one more than the offset of a
\* market message whose interval is durably processed.
C9_CommittedAboveAProcessed ==
  \A p \in Partitions :
    Has(lastCommittedOffset, p) =>
      \E k \in Offsets :
        /\ busCommitted[p] = k + 1
        /\ Valid(p, k)
        /\ Stored(topic[p][k])

\* C9 witness: a position is committed while a message at or above it is
\* already durably processed.
C9_Witness ==
  \E p \in Partitions :
    /\ Has(lastCommittedOffset, p)
    /\ \E j \in ProcessedOffsets(p) : j >= busCommitted[p]

\* ================================================ properties (SpecBuf)
\* C10: for every range [s, e], getTradesFromBuffer(s, e) holds exactly the
\* trades that were added with s <= time <= e and that no sweep removed,
\* each once (both bounds inclusive, nothing outside the range, empty when
\* there is none), and hasTradesInRange(s, e) is true exactly when that
\* result is not empty.
C10_QueryReturnsAddedInRange ==
  \A s \in Times, e \in Times :
    LET result == getTradesFromBuffer(s, e)
    IN  /\ ToSet(result) =
             { t \in addedTrades \ sweptTrades : s <= t.time /\ t.time <= e }
        /\ Len(result) = Cardinality(ToSet(result))
        /\ hasTradesInRange(s, e) <=> (result # << >>)

\* C10 witness: after a sweep removed a trade, a query returns a trade at
\* each end of its range, a narrower query leaves out a buffered trade
\* outside its range, and another range is empty.
C10_Witness ==
  /\ sweptTrades # {}
  /\ \E s \in Times, e \in Times :
       /\ s < e
       /\ \E i, j \in 1 .. Len(getTradesFromBuffer(s, e)) :
            /\ getTradesFromBuffer(s, e)[i].time = s
            /\ getTradesFromBuffer(s, e)[j].time = e
       /\ getTradesFromBuffer(s, s) # << >>
       /\ Len(tradeBuffer) > Len(getTradesFromBuffer(s, s))
  /\ \E s \in Times, e \in Times : s <= e /\ getTradesFromBuffer(s, e) = << >>

\* C13: lastTradeTime never decreases and is never cleared: add(trade) sets
\* it to the greater of its value and trade.time (an older trade leaves it
\* unchanged), and a sweep leaves it as it is.
C13_LastTradeTimeMonotone ==
  [][ /\ lastTradeTime # Nil =>
           (lastTradeTime' # Nil /\ lastTradeTime' >= lastTradeTime)
      /\ \A t \in Times :
           AddTrade(t) =>
             lastTradeTime' =
               IF lastTradeTime = Nil \/ t > lastTradeTime
               THEN t ELSE lastTradeTime
      /\ Sweep => lastTradeTime' = lastTradeTime ]_vars

\* C13 witness: an older trade was added after a newer one, and a sweep has
\* emptied the buffer of everything but kept lastTradeTime.
C13_Witness ==
  /\ lastTradeTime # Nil
  /\ sweptTrades # {}
  /\ \E a \in sweptTrades, b \in sweptTrades :
       a.offset < b.offset /\ a.time > b.time /\ lastTradeTime >= a.time
  /\ tradeBuffer = << >>

\* ============================================== properties (SpecDeque)
\* C11: a sweep at time now removes every buffered trade with
\* time < now - MEMORY_RETENTION_MS and keeps every trade with time >= that
\* cutoff, in whatever order the trades were added.
C11_SweepRemovesExactlyOld ==
  [][ SweepFront =>
        \A trade \in ToSet(tradeBuffer) :
          (trade \in ToSet(tradeBuffer'))
            <=> (trade.time >= now - MEMORY_RETENTION_MS) ]_vars

\* ============================================= properties (SpecRouter)
FromMemory == query.phase = "answered" /\ query.via \in {"trade", "timeout"}
Elapsed == query.answeredAt - query.startedAt

\* C12: every trade of an answer given from the memory buffer is inside the
\* retention window at the time of the answer:
\* trade.time >= (time of the answer) - MEMORY_RETENTION_MS.
C12_AnswerWithinRetention ==
  FromMemory =>
    \A i \in 1 .. Len(query.trades) :
      query.trades[i].time >= query.answeredAt - MEMORY_RETENTION_MS

\* C14: a request whose t0 (lastTradeTime at its start) is already greater
\* than its end, with trades in [start, end] in the buffer, is answered at
\* once: it is never left waiting for a trade or for the timeout.
C14_ShortcutAnswersImmediately ==
  query.phase = "waiting" => (query.t0 = Nil \/ query.t0 <= query.end)

\* C15: a wait that no new trade after `end` cuts short ends by the
\* timeout, not before WAIT_TIMEOUT_MS has elapsed and not later than one
\* polling interval after it; an answer before the timeout is given only
\* after a new lastTradeTime > end was seen; no wait lasts longer.
C15_WaitEndsAtTimeout ==
  /\ (query.phase = "answered" /\ query.via = "timeout") =>
       /\ Elapsed >= WAIT_TIMEOUT_MS
       /\ Elapsed <= WAIT_TIMEOUT_MS + intervalMs
  /\ (query.phase = "answered" /\ query.via = "trade") =>
       /\ Elapsed < WAIT_TIMEOUT_MS
       /\ lastTradeTime # query.t0
       /\ lastTradeTime > query.end
  /\ query.phase = "waiting" =>
       /\ now <= query.wake
       /\ query.wake - query.startedAt < WAIT_TIMEOUT_MS + intervalMs

\* C15 witness: a request with trades in its range was answered from the
\* buffer by the timeout, later than WAIT_TIMEOUT_MS after its start, while
\* no trade after its end had arrived.
C15_Witness ==
  /\ query.phase = "answered" /\ query.via = "timeout"
  /\ Elapsed > WAIT_TIMEOUT_MS
  /\ query.trades # << >>
  /\ \A trade \in addedTrades : trade.time <= query.end

\* C16: while a request waits, the poll that finds a new lastTradeTime
\* (different from t0) greater than `end` answers it, before the timeout
\* has elapsed; a poll that finds none (also after a new trade with
\* time <= end) keeps waiting until the timeout; polls are at most one
\* interval apart.
C16_LaterTradeEndsWait ==
  [][ (query.phase = "waiting" /\ query' # query) =>
        /\ now - query.wake <= 0
        /\ query.wake - now <= intervalMs
        /\ IF /\ lastTradeTime # Nil
              /\ lastTradeTime # query.t0
              /\ lastTradeTime > query.end
           THEN /\ query'.phase = "answered"
                /\ query'.answeredAt = now
                /\ now - query.startedAt < WAIT_TIMEOUT_MS =>
                     query'.via = "trade"
           ELSE now - query.startedAt < WAIT_TIMEOUT_MS =>
                  query'.phase = "waiting" ]_vars

\* C16 witness: during the wait a new trade with time <= end arrived, which
\* did not end it, and then one with time > end, after which the request
\* was answered before the timeout.
C16_Witness ==
  /\ query.phase = "answered" /\ query.via = "trade"
  /\ Elapsed > 0 /\ Elapsed < WAIT_TIMEOUT_MS
  /\ query.t0 # Nil
  /\ \E trade \in addedTrades : trade.time > query.t0 /\ trade.time <= query.end

\* C17: a request without a trade of its range in the buffer does not wait:
\* it calls the persistence service with a deadline of WAIT_TIMEOUT_MS;
\* whatever that call does, the callback gets no error, and when the call
\* fails or the deadline passes it gets an empty list.
C17_FallbackIsEmptyNotError ==
  [][ /\ (query.phase \in {"idle", "answered"} /\ query' # query) =>
           IF hasTradesInRange(query'.start, query'.end)
           THEN query'.phase # "rpc"
           ELSE /\ query'.phase = "rpc"
                /\ query'.wake = now + WAIT_TIMEOUT_MS
      /\ (query.phase = "rpc" /\ query' # query) =>
           /\ query'.phase = "answered"
           /\ query'.answeredAt <= query.wake
           /\ ~query'.error
           /\ query'.via \in {"persistence", "fallback"}
      /\ RpcFails => (query'.trades = << >> /\ ~query'.error) ]_vars

\* C17 witness: the buffer held trades, none in the range; the persistence
\* call ran into its deadline and the request was answered with an empty
\* list and no error.
C17_Witness ==
  /\ query.phase = "answered" /\ query.via = "fallback"
  /\ Elapsed = WAIT_TIMEOUT_MS
  /\ tradeBuffer # << >>
  /\ query.trades = << >> /\ ~query.error

\* ====================================================== calculatePnL
\* Decimal values are kept exactly, as integers: volumes in MWh, prices
\* and amounts of money in hundredths of a euro.
Prices == 0 .. MaxPrice
Volumes == 1 .. MaxVolume
PnlTradeValues == [tradeType : {"BUY", "SELL"}, volume : Volumes]

RECURSIVE TradeLists(_)
TradeLists(n) ==
  IF n = 0 THEN { << >> }
  ELSE TradeLists(n - 1) \cup
       { Append(l, t) : l \in { x \in TradeLists(n - 1) : Len(x) = n - 1 },
                        t \in PnlTradeValues }

ZeroTotals ==
  [totalBuyVolume |-> 0, totalSellVolume |-> 0,
   totalBuyFees |-> 0, totalSellFees |-> 0]

\* the loop over the trades: each trade's fee is volume * fee rate, and
\* volume and fee are added to the totals of the trade's side
RECURSIVE ProcessTrades(_, _)
ProcessTrades(trades, totals) ==
  IF trades = << >> THEN totals
  ELSE LET trade == Head(trades)
           volume == trade.volume
           fee == volume * TRADING_FEE_PER_MWH
       IN ProcessTrades(Tail(trades),
            IF trade.tradeType = "BUY"
            THEN [totals EXCEPT !.totalBuyVolume = @ + volume,
                                !.totalBuyFees = @ + fee]
            ELSE IF trade.tradeType = "SELL"
            THEN [totals EXCEPT !.totalSellVolume = @ + volume,
                                !.totalSellFees = @ + fee]
            ELSE totals)

\* the fee of a sale added to the revenue instead of taken from it
calculatePnL_FeeAddedToRevenue(buyPrice, sellPrice, trades) ==
  LET totals == ProcessTrades(trades, ZeroTotals)
      totalBuyCost == totals.totalBuyVolume * buyPrice + totals.totalBuyFees
      totalSellRevenue ==
        totals.totalSellVolume * sellPrice + totals.totalSellFees
  IN [totalBuyVolume |-> totals.totalBuyVolume,
      totalSellVolume |-> totals.totalSellVolume,
      totalBuyCost |-> totalBuyCost,
      totalSellRevenue |-> totalSellRevenue,
      totalFees |-> totals.totalBuyFees + totals.totalSellFees,
      pnl |-> totalSellRevenue - totalBuyCost]

calculatePnL(buyPrice, sellPrice, trades) ==
  LET totals == ProcessTrades(trades, ZeroTotals)
      totalBuyCost == totals.totalBuyVolume * buyPrice + totals.totalBuyFees
      totalSellRevenue ==
        totals.totalSellVolume * sellPrice - totals.totalSellFees
  IN [totalBuyVolume |-> totals.totalBuyVolume,
      totalSellVolume |-> totals.totalSellVolume,
      totalBuyCost |-> totalBuyCost,
      totalSellRevenue |-> totalSellRevenue,
      totalFees |-> totals.totalBuyFees + totals.totalSellFees,
      pnl |-> totalSellRevenue - totalBuyCost]

PnlInit ==
  /\ pnlBuyPrice \in Prices
  /\ pnlSellPrice \in Prices
  /\ pnlTrades \in TradeLists(MaxPnlTrades)
  /\ pnlPc = "called"
  /\ pnlResult = << >>

CalculatePnL ==
  /\ pnlPc = "called"
  /\ pnlPc' = "returned"
  /\ pnlResult' = calculatePnL(pnlBuyPrice, pnlSellPrice, pnlTrades)
  /\ UNCHANGED << pnlBuyPrice, pnlSellPrice, pnlTrades >>
  /\ UNCHANGED notPnlVars

InitPnl ==
  CalcIdle /\ BufInit /\ RouterInit /\ BatchIdle /\ UpsertIdle /\ ShutdownInit /\ PnlInit /\ AggIdle /\ RetryIdle /\ RangeInit

NextPnl == CalculatePnL

SpecPnl == InitPnl /\ [][NextPnl]_vars

\* ================================================ properties (SpecPnl)
\* the sum of the volumes of the trades of one side
RECURSIVE VolumeOf(_, _)
VolumeOf(side, trades) ==
  IF trades = << >> THEN 0
  ELSE (IF Head(trades).tradeType = side THEN Head(trades).volume ELSE 0)
       + VolumeOf(side, Tail(trades))

\* C25: calculatePnL returns the two volume totals as the sums of the BUY
\* and SELL volumes, totalBuyCost = totalBuyVolume * buyPrice +
\* totalBuyVolume * FEE, totalSellRevenue = totalSellVolume * sellPrice -
\* totalSellVolume * FEE, totalFees = (totalBuyVolume + totalSellVolume) *
\* FEE and pnl = totalSellRevenue - totalBuyCost, all exact; for an empty
\* trade list every field is 0.
C25_PnlFormula ==
  pnlPc = "returned" =>
    LET buys == VolumeOf("BUY", pnlTrades)
        sells == VolumeOf("SELL", pnlTrades)
    IN /\ pnlResult.totalBuyVolume = buys
       /\ pnlResult.totalSellVolume = sells
       /\ pnlResult.totalBuyCost =
            buys * pnlBuyPrice + buys * TRADING_FEE_PER_MWH
       /\ pnlResult.totalSellRevenue =
            sells * pnlSellPrice - sells * TRADING_FEE_PER_MWH
       /\ pnlResult.totalFees = (buys + sells) * TRADING_FEE_PER_MWH
       /\ pnlResult.pnl =
            pnlResult.totalSellRevenue - pnlResult.totalBuyCost
       /\ pnlTrades = << >> =>
            \A f \in DOMAIN pnlResult : pnlResult[f] = 0

\* C25 witness: a result for a list with trades of both sides and different
\* volumes, at prices that are not zero, with a loss.
C25_Witness ==
  /\ pnlPc = "returned"
  /\ Len(pnlTrades) = MaxPnlTrades
  /\ \E i, j \in DOMAIN pnlTrades :
       /\ pnlTrades[i].tradeType = "BUY" /\ pnlTrades[j].tradeType = "SELL"
       /\ pnlTrades[i].volume # pnlTrades[j].volume
  /\ pnlBuyPrice > 0 /\ pnlSellPrice > 0
  /\ pnlResult.pnl < 0

\* ============================================================ getPnls
\* Instants are counted in half minutes; amounts of money in thousandths
\* of a euro.  A PnL document is kept with the fields getPnls reads.
EndTimes == 1 .. MaxEndTime
PnlAmounts == { 0 - 1004, 2015 }
FeeAmounts == { 0, 130 }
PnLDocuments ==
  { [marketStartTime |-> e - 1, marketEndTime |-> e, pnl |-> a, totalFees |-> f] :
      e \in EndTimes, a \in PnlAmounts, f \in FeeAmounts }

\* the unique index of the collection on (marketStartTime, marketEndTime)
UniqueInterval(coll) ==
  \A a, b \in coll :
    (a.marketStartTime = b.marketStartTime /\ a.marketEndTime = b.marketEndTime)
      => a = b

\* formatDate prints year to minute and drops the seconds
formatDate(date) == date \div MINUTE

\* find(filter).sort({ marketEndTime: -1 }).toArray()
RECURSIVE SortedByEndTimeDesc(_)
SortedByEndTimeDesc(docs) ==
  IF docs = {} THEN << >>
  ELSE LET first == CHOOSE d \in docs :
                      \A o \in docs : o.marketEndTime <= d.marketEndTime
       IN << first >> \o SortedByEndTimeDesc(docs \ { first })

find_gte(coll, from) ==
  SortedByEndTimeDesc({ d \in coll : d.marketEndTime >= from })

\* the oldest document instead of the most recent one
findOne_Oldest(coll) ==
  { d \in coll : \A o \in coll : o.marketEndTime >= d.marketEndTime }

\* findOne({}, { sort: { marketEndTime: -1 } }): the documents one of which
\* is returned
findOne_Latest(coll) ==
  { d \in coll : \A o \in coll : o.marketEndTime <= d.marketEndTime }

RECURSIVE SumField(_, _)
SumField(docs, field) ==
  IF docs = << >> THEN 0
  ELSE Head(docs)[field] + SumField(Tail(docs), field)

calculateInterval(docs) ==
  LET totalPnL == SumField(docs, "pnl")
      totalFees == SumField(docs, "totalFees")
  IN [totalPnL |-> totalPnL, pnlMinusFees |-> totalPnL - totalFees]

\* parseFloat(x.toFixed(2)): x to the nearest hundredth; a value half way
\* between two hundredths goes to either, as its binary representation
\* decides
toFixed2(x) ==
  LET down == (x \div 10) * 10
  IN IF x % 10 = 0 THEN { x }
     ELSE IF x % 10 < 5 THEN { down }
     ELSE IF x % 10 > 5 THEN { down + 10 }
     ELSE { down, down + 10 }

\* the collections of at most n documents
RECURSIVE Collections(_)
Collections(n) ==
  IF n = 0 THEN { {} }
  ELSE LET smaller == Collections(n - 1)
       IN smaller \cup { c \cup { d } : c \in smaller, d \in PnLDocuments }

AggInit ==
  /\ pnlsCollection \in { c \in Collections(MaxPnlDocs) : UniqueInterval(c) }
  /\ getPc = "idle"
  /\ getResult = << >>

\* the calculation service stores the PnL of one more interval
InsertPnl(doc) ==
  /\ getPc = "idle"
  /\ Cardinality(pnlsCollection) < MaxPnlDocs
  /\ UniqueInterval(pnlsCollection \cup { doc })
  /\ doc \notin pnlsCollection
  /\ pnlsCollection' = pnlsCollection \cup { doc }
  /\ UNCHANGED << getPc, getResult >>
  /\ UNCHANGED notAggVars

GetPnlsEmpty ==
  /\ getPc = "idle"
  /\ findOne_Latest(pnlsCollection) = {}
  /\ getPc' = "returned"
  /\ getResult' = << >>
  /\ UNCHANGED pnlsCollection
  /\ UNCHANGED notAggVars

GetPnls ==
  /\ getPc = "idle"
  /\ \E lastPnL \in findOne_Latest(pnlsCollection) :
       LET lastInterval == calculateInterval(<< lastPnL >>)
           referenceTime == lastPnL.marketEndTime
           oneMinuteAgo == referenceTime - MINUTE
           fiveMinutesAgo == referenceTime - 5 * MINUTE
           oneMinutePnls == find_gte(pnlsCollection, oneMinuteAgo)
           fiveMinutesPnls == find_gte(pnlsCollection, fiveMinutesAgo)
           oneMinute == calculateInterval(oneMinutePnls)
           fiveMinutes == calculateInterval(fiveMinutesPnls)
           oneMinuteStartTime ==
             IF Len(oneMinutePnls) > 0 THEN oneMinuteAgo ELSE referenceTime
           fiveMinutesStartTime ==
             IF Len(fiveMinutesPnls) > 0 THEN fiveMinutesAgo ELSE referenceTime
       IN \E p1 \in toFixed2(lastInterval.pnlMinusFees),
             p2 \in toFixed2(oneMinute.pnlMinusFees),
             p3 \in toFixed2(fiveMinutes.pnlMinusFees) :
            getResult' =
              << [startTime |-> formatDate(lastPnL.marketStartTime),
                  endTime |-> formatDate(lastPnL.marketEndTime),
                  pnl |-> p1],
                 [startTime |-> formatDate(oneMinuteStartTime),
                  endTime |-> formatDate(referenceTime),
                  pnl |-> p2],
                 [startTime |-> formatDate(fiveMinutesStartTime),
                  endTime |-> formatDate(referenceTime),
                  pnl |-> p3] >>
  /\ getPc' = "returned"
  /\ UNCHANGED pnlsCollection
  /\ UNCHANGED notAggVars

InitAgg ==
  CalcIdle /\ BufInit /\ RouterInit /\ BatchIdle /\ UpsertIdle /\ ShutdownInit /\ PnlIdle /\ AggInit /\ RetryIdle /\ RangeInit

NextAgg ==
  \/ \E doc \in PnLDocuments : InsertPnl(doc)
  \/ GetPnlsEmpty
  \/ GetPnls

SpecAgg == InitAgg /\ [][NextAgg]_vars

\* ================================================ properties (SpecAgg)
\* the latest marketEndTime of the collection
LatestEndTime ==
  CHOOSE t \in { d.marketEndTime : d \in pnlsCollection } :
    \A d \in pnlsCollection : d.marketEndTime <= t

RECURSIVE StoredPnlSum(_)
StoredPnlSum(docs) ==
  IF docs = {} THEN 0
  ELSE LET d == CHOOSE x \in docs : TRUE
       IN d.pnl + StoredPnlSum(docs \ { d })

Since(from) == { d \in pnlsCollection : d.marketEndTime >= from }

C26_EmptyWitness == getPc = "returned" /\ pnlsCollection = {} /\ getResult = << >>

\* C27: the pnl of the first entry is the stored pnl of the most recent
\* record, the pnl of the second (third) entry the sum of the stored pnl of
\* the records with marketEndTime >= reference - 60 s (300 s), boundary
\* included, each rounded to two decimals and with no fee subtracted.
C27_PnlIsStoredPnl ==
  (getPc = "returned" /\ pnlsCollection # {}) =>
    /\ \E d \in pnlsCollection : /\ d.marketEndTime = LatestEndTime
                       /\ getResult[1].pnl \in toFixed2(d.pnl)
    /\ getResult[2].pnl \in toFixed2(StoredPnlSum(Since(LatestEndTime - MINUTE)))
    /\ getResult[3].pnl \in
         toFixed2(StoredPnlSum(Since(LatestEndTime - 5 * MINUTE)))

\* ====================================== properties (Spec), continued
NoCommitPending(p) ==
  \A i \in 1 .. Len(commitQueue) : commitQueue[i].partition # p

\* C28: a message that fails parsing or validation enters neither inFlight
\* nor completed, and it does not block the ordered commit: when it has been
\* delivered, the offset after it has completed and no commit of the
\* partition is pending, the committed position is past it or the next
\* commitOffsetsInOrder call has an offset to commit.
C28_InvalidOffsetDoesNotBlock ==
  \A p \in Partitions : \A k \in Offsets :
    (~Valid(p, k) /\ k < cursor[p]) =>
      /\ k \notin Get(inFlightOffsets, p)
      /\ k \notin Get(completedOffsets, p)
      /\ ((k + 1) \in Get(completedOffsets, p) /\ NoCommitPending(p))
           => \/ busCommitted[p] > k
              \/ FirstToCommit(p, completedOffsets, lastCommittedOffset) # Nil

\* C29: the delivery of an offset that is in inFlight or in completed of its
\* partition starts no processing task and changes no tracking state.
C29_DuplicateDeliveryIsSkipped ==
  [][ \A p \in Partitions :
        (/\ Deliver(p)
         /\ Valid(p, cursor[p])
         /\ cursor[p] \in Get(inFlightOffsets, p) \cup Get(completedOffsets, p))
        => /\ pc' = pc
           /\ inFlightOffsets' = inFlightOffsets
           /\ completedOffsets' = completedOffsets
           /\ lastCommittedOffset' = lastCommittedOffset
           /\ commitQueue' = commitQueue ]_vars

\* C30: when the bus answers a commit with an error, completed and
\* lastCommitted stay as they are and no further commit is sent, and the
\* commitOffsetsInOrder call of the next completion on the partition starts
\* from the offset whose commit failed.
C30_FailedCommitIsRetried ==
  [][ CommitFail =>
        LET req == Head(commitQueue)
            p == req.partition
        IN  /\ completedOffsets' = completedOffsets
            /\ lastCommittedOffset' = lastCommittedOffset
            /\ commitQueue' = Tail(commitQueue)
            /\ \A o \in Get(inFlightOffsets, p) :
                 FirstToCommit(p, ThenCompleted(p, o), lastCommittedOffset)
                   = req.offset ]_vars

\* C31: every completed offset is eventually committed and removed from
\* completed.  With no commit of the partition pending, the next commits
\* are lastCommitted + 1 and upward, so an offset in completed that is at
\* or below lastCommitted is never committed and never removed: no such
\* offset may exist.
C31_CompletedIsEventuallyCommitted ==
  \A p \in Partitions :
    (Has(lastCommittedOffset, p) /\ NoCommitPending(p)) =>
      \A o \in Get(completedOffsets, p) : o > lastCommittedOffset[p]

C38_InFlightAndCompletedDisjoint ==
  \A p \in Partitions :
    Get(inFlightOffsets, p) \cap Get(completedOffsets, p) = {}

\* C39: lastCommitted of a partition never decreases.
C39_LastCommittedNeverDecreases ==
  [][ \A p \in Partitions :
        Has(lastCommittedOffset, p) =>
          /\ Has(lastCommittedOffset', p)
          /\ lastCommittedOffset'[p] >= lastCommittedOffset[p] ]_vars

\* ==================================================== retryWithBackoff
\* What fn (getTradesForPeriod) resolves with, and the errors it raises.
FetchResults == 1 .. MaxFetchResult
FetchErrors == { "unavailable", "deadline" }

\* Mutant of delayMs: the delay grows linearly.
delayMs_Linear(attempt) == INITIAL_RETRY_DELAY_MS * (attempt + 1)

\* delayMs = initialDelayMs * Math.pow(2, attempt)
delayMs(attempt) == INITIAL_RETRY_DELAY_MS * (2 ^ attempt)

\* processMarketMessage calls retryWithBackoff: attempt = 0, fn is called
RetryInit ==
  retry = [NoRetry EXCEPT !.pc = "calling", !.calls = 1]

\* fn resolved: return await fn()
FnResolves(r) ==
  /\ retry.pc = "calling"
  /\ retry' = [retry EXCEPT !.pc = "returned", !.result = r]
  /\ UNCHANGED notRetryVars

\* fn rejected: the catch block; after the last attempt the loop ends,
\* lastError is thrown and the catch of processMarketMessage re-throws it
FnRejects(e) ==
  /\ retry.pc = "calling"
  /\ retry' =
       IF retry.attempt < MAX_RETRIES - 1
       THEN [retry EXCEPT !.pc = "waiting",
                          !.lastError = e,
                          !.errors = Append(@, e),
                          !.delays = Append(@, delayMs(retry.attempt))]
       ELSE [retry EXCEPT !.pc = "thrown",
                          !.lastError = e,
                          !.errors = Append(@, e),
                          !.taskFailed = TRUE]
  /\ UNCHANGED notRetryVars

\* the delay has passed: attempt++ and the next call of fn
DelayEnds ==
  /\ retry.pc = "waiting"
  /\ retry' = [retry EXCEPT !.pc = "calling",
                            !.attempt = @ + 1,
                            !.calls = @ + 1]
  /\ UNCHANGED notRetryVars

InitRetry ==
  CalcIdle /\ BufInit /\ RouterInit /\ BatchIdle /\ UpsertIdle /\ ShutdownInit /\ PnlIdle /\ AggIdle /\ RetryInit /\ RangeInit

NextRetry ==
  \/ \E r \in FetchResults : FnResolves(r)
  \/ \E e \in FetchErrors : FnRejects(e)
  \/ DelayEnds

SpecRetry == InitRetry /\ [][NextRetry]_vars

\* ============================================== properties (SpecRetry)
\* C32: fn is called at most 5 times; the first result ends the call with
\* no further attempt; the delays between failed attempts are 100, 200,
\* 400 and 800 ms; the 5th failure throws the last error with no further
\* delay and the processing task fails.
C32_FiveAttemptsDoublingDelay ==
  /\ retry.calls <= 5
  /\ \A i \in 1 .. Len(retry.delays) :
       retry.delays[i] = << 100, 200, 400, 800 >>[i]
  /\ retry.pc \in {"calling", "returned"} =>
       /\ retry.calls = Len(retry.errors) + 1
       /\ Len(retry.delays) = Len(retry.errors)
  /\ retry.pc = "returned" => (retry.result \in FetchResults /\ ~retry.taskFailed)
  /\ retry.pc = "waiting" =>
       (retry.calls = Len(retry.errors) /\ Len(retry.delays) = retry.calls)
  /\ retry.pc = "thrown" =>
       /\ retry.calls = 5 /\ Len(retry.errors) = 5
       /\ retry.delays = << 100, 200, 400, 800 >>
       /\ retry.lastError = retry.errors[5]
       /\ retry.taskFailed

\* C32 witness: the fifth attempt failed as well, with another error than
\* the fourth.
C32_Witness ==
  /\ retry.pc = "thrown"
  /\ retry.calls = 5
  /\ retry.errors[4] # retry.errors[5]

\* a result at the third attempt, after two delays
C32_ReturnWitness ==
  retry.pc = "returned" /\ retry.calls = 3 /\ Len(retry.delays) = 2

\* ======================================= merged queried range (SpecRange)
\* The (start, end) of the range queries: any interval of the clock.
RangeQueries == { r \in Times \X Times : r[1] <= r[2] }

\* getTradesForPeriod, line 107: updateQueriedRange(start, end). (What the
\* request goes on to do is in Request.)
QueryRange(startTime, endTime) ==
  /\ queriedRange' = updateQueriedRange(queriedRange, startTime, endTime, now)
  /\ UNCHANGED notRangeVars

\* index.ts eachMessage of the trade memory service: a trade that
\* isPossibleOutOfOrderTrade flags is logged as a late arrival; the trade
\* is added to the buffer either way.
TradeMessage(t) ==
  /\ Cardinality(addedTrades) < MaxRangeTrades
  /\ LET trade == [time |-> t, offset |-> Cardinality(addedTrades)]
     IN  /\ queriedRange' =
               IF isPossibleOutOfOrderTrade(trade.time)
               THEN [queriedRange EXCEPT !.warned = @ \cup {trade}]
               ELSE queriedRange
         /\ tradeBuffer' = PushTrade(tradeBuffer, trade)
         /\ lastTradeTime' = NextLastTradeTime(lastTradeTime, trade)
         /\ addedTrades' = addedTrades \cup {trade}
  /\ UNCHANGED << now, sweptTrades >>
  /\ UNCHANGED notBufRangeVars

NextRange ==
  \/ \E r \in RangeQueries : QueryRange(r[1], r[2])
  \/ \E t \in Times : TradeMessage(t)
  \/ Tick

SpecRange == InitBuf /\ [][NextRange]_vars

\* The greatest element of a non-empty set of instants
MaxOf(S) == CHOOSE x \in S : \A y \in S : y <= x

RangeIsSet ==
  queriedRange.queriedRangeStart # Nil /\ queriedRange.queriedRangeEnd # Nil

\* C34: the end of the merged queried range never decreases, and it is
\* the maximum end of all the ranges queried so far.
C34_EndIsMaxOfQueriedEnds ==
  /\ [](queriedRange.ends # {} =>
          queriedRange.queriedRangeEnd = MaxOf(queriedRange.ends))
  /\ [][ queriedRange.queriedRangeEnd # Nil =>
           queriedRange'.queriedRangeEnd >= queriedRange.queriedRangeEnd ]_vars

\* C34 witness: three different ends were queried (at most one of them
\* is the greatest) and the start was moved off the first instant.
C34_Witness ==
  /\ Cardinality(queriedRange.ends) = 3
  /\ queriedRange.queriedRangeEnd = MaxTime
  /\ queriedRange.queriedRangeStart > 0

\* C35: after every updateQueriedRange call made at `now`, the first one
\* included, the start of the merged range is not older than
\* now - QUERIED_RANGE_RETENTION_MS.
C35_StartWithinRetentionAfterCall ==
  [][ \A r \in RangeQueries :
        QueryRange(r[1], r[2]) =>
          queriedRange'.queriedRangeStart >= now - QUERIED_RANGE_RETENTION_MS
    ]_vars

\* C40: whenever the merged queried range is set, its start is not after
\* its end.
C40_RangeWellFormed ==
  RangeIsSet => queriedRange.queriedRangeStart <= queriedRange.queriedRangeEnd

\* C36: a trade message is flagged exactly when a range exists and the
\* trade time is not after its end (inside the range or before its
\* start); flagged or not, the trade is appended to the buffer and a
\* query of its instant returns it.
C36_FlaggedIffNotAfterEnd ==
  [][ \A t \in Times :
        TradeMessage(t) =>
          /\ isPossibleOutOfOrderTrade(t) =
               (RangeIsSet /\ t <= queriedRange.queriedRangeEnd)
          /\ Len(tradeBuffer') = Len(tradeBuffer) + 1
          /\ tradeBuffer'[Len(tradeBuffer')].time = t
          /\ (isPossibleOutOfOrderTrade(t) <=>
                tradeBuffer'[Len(tradeBuffer')] \in queriedRange'.warned)
    ]_vars

\* ================================== properties (SpecRouter), continued
\* The entries of a reply with the given time
ReplyCount(trades, t) ==
  Cardinality({ i \in 1 .. Len(trades) : trades[i].time = t })

\* The trades of the given time that were added and not swept
UnsweptCount(t) ==
  Cardinality({ trade \in addedTrades \ sweptTrades : trade.time = t })

\* C37: a request answered from the memory buffer returns the trades of
\* [start, end] that are in the buffer when the wait ends: all those added
\* before the answer and not swept, the ones that arrived during the wait
\* included, and no trade outside the range.
C37_ReadsBufferAfterWait ==
  [][ (query.phase # "answered" /\ query'.phase = "answered"
       /\ query'.via \in {"trade", "timeout"}) =>
        \A t \in Times :
          ReplyCount(query'.trades, t) =
            IF t >= query'.start /\ t <= query'.end
            THEN UnsweptCount(t) ELSE 0 ]_vars

\* C37 witness: the request waited and its answer holds a trade later than
\* t0 (it arrived during the wait) next to one that was there at the
\* start.
C37_Witness ==
  /\ FromMemory
  /\ Elapsed > 0
  /\ query.t0 # Nil
  /\ \E i \in 1 .. Len(query.trades) : query.trades[i].time > query.t0
  /\ \E i \in 1 .. Len(query.trades) : query.trades[i].time <= query.t0

====
